---------------------------- MODULE Spec2Model ----------------------------
(***************************************************************************)
(* Smart Shop backend (src/unnamed/part_001): the product search and       *)
(* ranking engine (findProducts), and the handlers POST /ai/search,        *)
(* POST /ai/search-by-image, GET /ai/market-trend/:productName and         *)
(* POST /market-price.                                                     *)
(*                                                                         *)
(* One request is in flight at a time; every await of a collaborator       *)
(* (storage, generative model, on-device models) is one step, and the      *)
(* collaborator's reply is the input of that step.                         *)
(*                                                                         *)
(* Encoding of JavaScript values:                                          *)
(*   - numbers are integers; prices in currency units, ratings in tenths,  *)
(*     distances in millimetres (distance_km of a response in 1/100 km);   *)
(*   - Infinity, NegInfinity, NaN and null are integer sentinels outside   *)
(*     the range of every finite number of the model;                      *)
(*   - a template string is the sequence of its pieces;                    *)
(*   - a text returned by the generative model is a sequence of tokens.    *)
(***************************************************************************)
EXTENDS Integers, Sequences, FiniteSets, TLC

VARIABLES
    env,                    \* process environment, read once at start-up
    pc,                     \* position of the request in flight
    endpoint,               \* route of the request in flight
    req,                    \* req.body / req.file / req.params
    response,               \* what res.status(..).json(..) sent
    sent,                   \* number of responses sent for the request
    fpArgs,                 \* arguments of the running findProducts call
    fpCallNo,               \* 0: none, 1: call of the try block, 2: call of the outer catch
    storage,                \* replies of the store to the running findProducts call
    products,               \* rows returned by the product query
    aiText,                 \* outcome of model.generateContent in findProducts
    fpOutcome,              \* how the latest findProducts call ended
    fpCalls,                \* collaborator calls made by the running findProducts call
    reqCalls,               \* collaborator calls made for the request in flight
    identifiedFood,         \* image handler's local identifiedFood
    classifierPredictions,  \* image handler's local classifierPredictions
    visionOutcome,          \* outcome of the vision call of the image handler
    detectOutcome,          \* outcome of cocoModel.detect and the handler's local detections
    localOutcome,           \* how the local fallback block of the image handler ended
    loaded,                 \* module-level tf/mobilenet/cocoSsd and global.__loaded* models
    market_price,           \* rows of table market_price for the requested product, newest first
    trend,                  \* locals of the trend handler
    suspended,              \* locals of the other request in flight, waiting at an await
    sales                   \* POST /sales: the items of the body and the record_sale calls made

vars == << env, pc, endpoint, req, response, sent, fpArgs, fpCallNo, storage, products,
           aiText, fpOutcome, fpCalls, reqCalls,
           identifiedFood, classifierPredictions, visionOutcome, detectOutcome,
           localOutcome, loaded, market_price, trend, suspended, sales >>

-----------------------------------------------------------------------------
(* Bounds of the model *)

MaxHistory == 3         \* most rows of market_price for one product
MaxItems == 3           \* most items in the body of one POST /sales

-----------------------------------------------------------------------------
(* JavaScript numbers that are not finite, and null *)

Infinity == 1000000000
NegInfinity == -1000000000
NaN == -1000000002
null == -1000000001
NullStr == "<null>"

IsFiniteNumber(v) == v \notin {Infinity, NegInfinity, NaN, null}

\* a - b for a, b finite or +Infinity
Minus(a, b) ==
    IF a = Infinity /\ b = Infinity THEN NaN
    ELSE IF a = Infinity THEN Infinity
    ELSE IF b = Infinity THEN NegInfinity
    ELSE a - b

\* request values: a JSON number, a multipart string holding a number, or undefined
Num(n) == [t |-> "number", v |-> n]
Str(n) == [t |-> "string", v |-> n]
Undefined == [t |-> "undefined", v |-> 0]
NoText == [t |-> "string", v |-> -1]

\* !x of JavaScript
Truthy(x) ==
    CASE x.t = "number" -> x.v # 0
      [] x.t = "string" -> x # NoText
      [] OTHER -> FALSE

ToNumber(x) == x.v

Min(a, b) == IF a < b THEN a ELSE b

-----------------------------------------------------------------------------
(* Strings.  A string of the program is a TLA+ string; the operations that *)
(* look inside a string (toLowerCase, includes, trim, split) work on its   *)
(* characters, given by Chars.                                             *)

Vocabulary ==
    { "", "Burger", "pizza", "Veg Burger", "Pizza Burger", " Pizza ",
      "Pizza", "Dosa", "cheeseburger", "plate", "pizza, pizza pie",
      "hotdog, hot dog, red hot", "hotdog", "hot dog", "person", "burger",
      "samosa", "cake", "cupcake", "pastry", "sandwich", "submarine",
      "donut", "doughnut", "noodle", "pasta", "spaghetti", "biryani",
      "rice", "dosa", "idli", "vada", "vadai", "roll", "wrap", "muffin",
      "cookie", "biscuit", "ice cream", "ice-cream", "coffee", "tea",
      "juice", "banana", "apple", "orange" }

Chars(s) ==
    CASE s = "" -> << >>
      [] s = "Burger" -> <<"B", "u", "r", "g", "e", "r">>
      [] s = "pizza" -> <<"p", "i", "z", "z", "a">>
      [] s = "Veg Burger" -> <<"V", "e", "g", " ", "B", "u", "r", "g", "e", "r">>
      [] s = "Pizza Burger" -> <<"P", "i", "z", "z", "a", " ", "B", "u", "r", "g", "e", "r">>
      [] s = " Pizza " -> <<" ", "P", "i", "z", "z", "a", " ">>
      [] s = "Pizza" -> <<"P", "i", "z", "z", "a">>
      [] s = "Dosa" -> <<"D", "o", "s", "a">>
      [] s = "cheeseburger" -> <<"c", "h", "e", "e", "s", "e", "b", "u", "r", "g", "e", "r">>
      [] s = "plate" -> <<"p", "l", "a", "t", "e">>
      [] s = "pizza, pizza pie" -> <<"p", "i", "z", "z", "a", ",", " ", "p", "i", "z", "z", "a", " ", "p", "i", "e">>
      [] s = "hotdog, hot dog, red hot" -> <<"h", "o", "t", "d", "o", "g", ",", " ", "h", "o", "t", " ", "d", "o", "g", ",", " ", "r", "e", "d", " ", "h", "o", "t">>
      [] s = "hotdog" -> <<"h", "o", "t", "d", "o", "g">>
      [] s = "hot dog" -> <<"h", "o", "t", " ", "d", "o", "g">>
      [] s = "person" -> <<"p", "e", "r", "s", "o", "n">>
      [] s = "burger" -> <<"b", "u", "r", "g", "e", "r">>
      [] s = "samosa" -> <<"s", "a", "m", "o", "s", "a">>
      [] s = "cake" -> <<"c", "a", "k", "e">>
      [] s = "cupcake" -> <<"c", "u", "p", "c", "a", "k", "e">>
      [] s = "pastry" -> <<"p", "a", "s", "t", "r", "y">>
      [] s = "sandwich" -> <<"s", "a", "n", "d", "w", "i", "c", "h">>
      [] s = "submarine" -> <<"s", "u", "b", "m", "a", "r", "i", "n", "e">>
      [] s = "donut" -> <<"d", "o", "n", "u", "t">>
      [] s = "doughnut" -> <<"d", "o", "u", "g", "h", "n", "u", "t">>
      [] s = "noodle" -> <<"n", "o", "o", "d", "l", "e">>
      [] s = "pasta" -> <<"p", "a", "s", "t", "a">>
      [] s = "spaghetti" -> <<"s", "p", "a", "g", "h", "e", "t", "t", "i">>
      [] s = "biryani" -> <<"b", "i", "r", "y", "a", "n", "i">>
      [] s = "rice" -> <<"r", "i", "c", "e">>
      [] s = "dosa" -> <<"d", "o", "s", "a">>
      [] s = "idli" -> <<"i", "d", "l", "i">>
      [] s = "vada" -> <<"v", "a", "d", "a">>
      [] s = "vadai" -> <<"v", "a", "d", "a", "i">>
      [] s = "roll" -> <<"r", "o", "l", "l">>
      [] s = "wrap" -> <<"w", "r", "a", "p">>
      [] s = "muffin" -> <<"m", "u", "f", "f", "i", "n">>
      [] s = "cookie" -> <<"c", "o", "o", "k", "i", "e">>
      [] s = "biscuit" -> <<"b", "i", "s", "c", "u", "i", "t">>
      [] s = "ice cream" -> <<"i", "c", "e", " ", "c", "r", "e", "a", "m">>
      [] s = "ice-cream" -> <<"i", "c", "e", "-", "c", "r", "e", "a", "m">>
      [] s = "coffee" -> <<"c", "o", "f", "f", "e", "e">>
      [] s = "tea" -> <<"t", "e", "a">>
      [] s = "juice" -> <<"j", "u", "i", "c", "e">>
      [] s = "banana" -> <<"b", "a", "n", "a", "n", "a">>
      [] s = "apple" -> <<"a", "p", "p", "l", "e">>
      [] s = "orange" -> <<"o", "r", "a", "n", "g", "e">>

IsPrefixAt(sub, cs, i) ==
    \A k \in 1..Len(sub) : cs[i + k - 1] = sub[k]

\* String.prototype.includes, on character sequences
IncludesCs(cs, sub) ==
    \E i \in 1..(Len(cs) - Len(sub) + 1) : IsPrefixAt(sub, cs, i)

LowerChar(c) ==
    CASE c = "B" -> "b" [] c = "P" -> "p" [] c = "V" -> "v" [] c = "C" -> "c"
      [] c = "S" -> "s" [] c = "T" -> "t" [] c = "I" -> "i" [] c = "H" -> "h"
      [] OTHER -> c

\* String.prototype.toLowerCase
toLowerCase(cs) == [i \in 1..Len(cs) |-> LowerChar(cs[i])]

IsSpace(c) == c = " "

RECURSIVE TrimLeft(_)
TrimLeft(cs) ==
    IF cs # << >> /\ IsSpace(Head(cs)) THEN TrimLeft(Tail(cs)) ELSE cs

RECURSIVE TrimRight(_)
TrimRight(cs) ==
    IF cs # << >> /\ IsSpace(cs[Len(cs)]) THEN TrimRight(SubSeq(cs, 1, Len(cs) - 1)) ELSE cs

\* String.prototype.trim
trim(cs) == TrimRight(TrimLeft(cs))

\* the string of the vocabulary with these characters
StringOf(cs) == CHOOSE s \in Vocabulary : Chars(s) = cs

\* name ILIKE %pattern% of the product store
ilike(name, pattern) ==
    IncludesCs(toLowerCase(Chars(name)), toLowerCase(Chars(pattern)))

-----------------------------------------------------------------------------
(* The storage collaborator: shops and product rows *)

ShopA == [present |-> TRUE, name |-> "Shop A", contact_number |-> "111",
          email |-> "a@shop", latitude |-> 1, longitude |-> 1]
ShopB == [present |-> TRUE, name |-> "Shop B", contact_number |-> NullStr,
          email |-> NullStr, latitude |-> null, longitude |-> null]
ShopC == [present |-> TRUE, name |-> "Shop C", contact_number |-> "333",
          email |-> "c@shop", latitude |-> 1, longitude |-> 3]
\* p.shops is null: the joined shop row is missing
NoShop == [present |-> FALSE, name |-> NullStr, contact_number |-> NullStr,
           email |-> NullStr, latitude |-> null, longitude |-> null]

Row(id, name, price, rating, shops) ==
    [id |-> id, name |-> name, price |-> price, rating |-> rating, shops |-> shops]

\* contents of table products the model considers: one with every field
\* present, one with missing coordinates, shops, prices and ratings, one of
\* a shop without coordinates
Tables ==
    { { Row(1, "Burger", 150, 40, ShopA),
        Row(2, "Veg Burger", 100, 45, ShopC),
        Row(3, "Burger", 100, 30, ShopA),
        Row(4, "Pizza Burger", 120, 45, ShopC) },
      { Row(5, "Burger", 200, 40, ShopB),
        Row(6, "Veg Burger", 100, null, NoShop),
        Row(7, "Burger", null, 20, ShopA),
        Row(8, "Pizza Burger", null, 45, ShopC) },
      { Row(9, "Burger", null, 40, ShopB),
        Row(10, "Veg Burger", 100, 45, ShopB) } }

RECURSIVE Orders(_)
\* the sequences that list every element of S once
Orders(S) ==
    IF S = {} THEN { << >> }
    ELSE UNION { { <<x>> \o t : t \in Orders(S \ {x}) } : x \in S }

\* what the product query can return as data: the rows of the shops found
\* (any part of a table) whose name matches, in any order
ProductRows(query, filtered) ==
    UNION { Orders({ r \in T : (~filtered) \/ ilike(r.name, query) }) :
              T \in UNION { SUBSET Tb : Tb \in Tables } }

-----------------------------------------------------------------------------
(* DistanceCalculator: lines 181-190 *)

\* R * c of the haversine formula (R = 6371) in millimetres, for the
\* latitudes 0..2 degrees and longitude differences 0..3 degrees of the model,
\* as the floating-point formula of lines 184-189 evaluates it
HaversineTable ==
    [ la \in {<<0, 0>>, <<0, 1>>, <<0, 2>>, <<1, 1>>, <<1, 2>>, <<2, 2>>} |->
        CASE la = <<0, 0>> -> <<0, 111194927, 222389853, 333584780>>
          [] la = <<0, 1>> -> <<111194927, 157249381, 248629315, 351613162>>
          [] la = <<0, 2>> -> <<222389853, 248629315, 314474805, 400862624>>
          [] la = <<1, 1>> -> <<0, 111177991, 222355979, 333533962>>
          [] la = <<1, 2>> -> <<111194927, 157225432, 248568719, 351516741>>
          [] la = <<2, 2>> -> <<0, 111127188, 222254366, 333381523>> ]

Abs(x) == IF x < 0 THEN -x ELSE x

\* a distance that takes a missing coordinate for the user's own place
distanceKmMissingIsHere(lat1, lon1, lat2, lon2) ==
    IF lat1.t = "undefined" \/ lon1.t = "undefined" \/ lat2 = null \/ lon2 = null
    THEN 0
    ELSE LET a == ToNumber(lat1)
             b == lat2
             dLon == Abs(lon2 - ToNumber(lon1))
         IN  HaversineTable[IF a <= b THEN <<a, b>> ELSE <<b, a>>][dLon + 1]

distanceKm(lat1, lon1, lat2, lon2) ==
    IF lat1.t = "undefined" \/ lon1.t = "undefined" \/ lat2 = null \/ lon2 = null
    THEN Infinity
    ELSE LET a == ToNumber(lat1)
             b == lat2
             dLon == Abs(lon2 - ToNumber(lon1))
         IN  HaversineTable[IF a <= b THEN <<a, b>> ELSE <<b, a>>][dLon + 1]

\* Number(x.toFixed(2)) of a distance, in 1/100 km
toFixed2(mm) == (mm + 5000) \div 10000

-----------------------------------------------------------------------------
(* Deterministic ranking: lines 192-228 *)

safeNumber(v, d) == IF IsFiniteNumber(v) THEN v ELSE d

Enrich(p, latitude, longitude) ==
    [ product_name |-> p.name,
      price |-> safeNumber(p.price, Infinity),
      rating |-> safeNumber(p.rating, 0),
      shop_name |-> IF p.shops.present THEN p.shops.name ELSE "Unknown Shop",
      shop_contact_number |-> IF p.shops.present THEN p.shops.contact_number ELSE NullStr,
      shop_email |-> IF p.shops.present THEN p.shops.email ELSE NullStr,
      distance_km |-> distanceKm(latitude, longitude,
                                 IF p.shops.present THEN p.shops.latitude ELSE null,
                                 IF p.shops.present THEN p.shops.longitude ELSE null) ]

\* the comparator of lines 207-213
Comparator(a, b) ==
    LET byDistance == Minus(a.distance_km, b.distance_km)
        byPrice == Minus(a.price, b.price)
    IN  IF byDistance # 0 THEN byDistance
        ELSE IF byPrice # 0 THEN byPrice
        ELSE b.rating - a.rating

\* SortCompare of Array.prototype.sort: a NaN from the comparator counts as +0
SortCompare(a, b) ==
    LET v == Comparator(a, b) IN IF v = NaN THEN 0 ELSE v

RECURSIVE InsertSorted(_, _)
InsertSorted(x, s) ==
    IF s = << >> THEN <<x>>
    ELSE IF SortCompare(x, Head(s)) < 0 THEN <<x>> \o s
    ELSE <<Head(s)>> \o InsertSorted(x, Tail(s))

RECURSIVE sort(_)
\* Array.prototype.sort is stable: equal elements keep their order
sort(s) ==
    IF s = << >> THEN << >>
    ELSE InsertSorted(s[Len(s)], sort(SubSeq(s, 1, Len(s) - 1)))

TopN == 3

\* slice that keeps the whole list
sliceAll(s) == s

\* .slice(0, 3)
slice(s) == SubSeq(s, 1, Min(TopN, Len(s)))

RankedItem(item, idx) ==
    [ rank |-> idx,
      product_name |-> item.product_name,
      price |-> IF item.price = Infinity THEN null ELSE item.price,
      rating |-> item.rating,
      shop_name |-> item.shop_name,
      shop_contact_number |-> item.shop_contact_number,
      shop_email |-> item.shop_email,
      distance_km |-> IF IsFiniteNumber(item.distance_km)
                      THEN toFixed2(item.distance_km) ELSE null,
      reason |-> "Ranked by distance, then price, then rating." ]

Ranked(rows, latitude, longitude) ==
    LET enriched == [i \in 1..Len(rows) |-> Enrich(rows[i], latitude, longitude)]
        top == slice(sort(enriched))
    IN  [i \in 1..Len(top) |-> RankedItem(top[i], i)]

DeterministicResult(rows, query, latitude, longitude) ==
    LET ranked == Ranked(rows, latitude, longitude)
    IN  [ summary |-> <<"Top ", ToString(Len(ranked)), " results for \"", query,
                        "\" near you based on distance, price, and rating.">>,
          recommendations |-> ranked ]

-----------------------------------------------------------------------------
(* The generative model: replies, fence stripping and JSON.parse *)

Tok(t, v) == [t |-> t, v |-> v]
FenceJson == Tok("fence-json", "")
Fence == Tok("fence", "")
Ws == Tok(" ", "")
Prose(w) == Tok("prose", w)
Json(id) == Tok("json", id)

AIRec(rank, name, price, rating) ==
    [ rank |-> rank, product_name |-> name, price |-> price, rating |-> rating,
      shop_name |-> "Shop A", shop_contact_number |-> "111", shop_email |-> "a@shop",
      reason |-> "Good price and rating." ]

JsonNull == [json |-> "null"]

\* the JSON values the texts of the model denote
JsonValue(id) ==
    CASE id = "good" ->
           [ summary |-> <<"Here are the best options.">>,
             recommendations |-> << AIRec(1, "Burger", 100, 40), AIRec(2, "Veg Burger", 100, 45) >> ]
      [] id = "four" ->
           [ summary |-> <<"Here are the best options.">>,
             recommendations |-> << AIRec(1, "Burger", 100, 40), AIRec(2, "Veg Burger", 100, 45),
                                    AIRec(3, "Burger", 200, 40), AIRec(4, "Pizza Burger", 100, 45) >> ]
      [] id = "verdict" ->
           [ prediction |-> "BUY", reason |-> "Price is low and rising.",
             internal_price |-> 100, external_price |-> 100 ]
      [] id = "null" -> JsonNull

JsonIds == {"good", "four", "verdict", "null"}

\* texts the generative model can answer with
AITexts ==
    { <<Json(id)>> : id \in JsonIds } \cup
    { <<FenceJson, Ws, Json("good"), Ws, Fence>>,
      <<Prose("Here is the result:"), Ws, Json("good")>>,
      << >> }

AIThrow == [threw |-> TRUE, text |-> << >>]
NoAI == [threw |-> FALSE, text |-> <<Prose("(not called)")>>]

\* outcomes of model.generateContent: without a credential every call is rejected
GenerateContent(hasKey) ==
    IF hasKey THEN {AIThrow} \cup { [threw |-> FALSE, text |-> t] : t \in AITexts }
    ELSE {AIThrow}

\* text.replace of the opening fence with its json tag, by ""
ReplaceFenceJson(text) == SelectSeq(text, LAMBDA k : k # FenceJson)

RECURSIVE ReplaceFence(_)
\* text.replace of the bare fence, by "": of a remaining tagged fence it leaves the word json
ReplaceFence(text) ==
    IF text = << >> THEN << >>
    ELSE LET h == Head(text)
         IN  (IF h = Fence THEN << >>
              ELSE IF h = FenceJson THEN <<Prose("json")>>
              ELSE <<h>>) \o ReplaceFence(Tail(text))

RECURSIVE TrimText(_)
TrimText(text) ==
    IF text # << >> /\ Head(text) = Ws THEN TrimText(Tail(text))
    ELSE IF text # << >> /\ text[Len(text)] = Ws THEN TrimText(SubSeq(text, 1, Len(text) - 1))
    ELSE text

cleanedText(text) == TrimText(ReplaceFence(ReplaceFenceJson(text)))

\* a parser that picks the JSON value out of the surrounding prose
JSONparseLenient(text) ==
    LET sig == SelectSeq(text, LAMBDA k : k.t = "json")
    IN  IF Len(sig) >= 1
        THEN [ok |-> TRUE, value |-> JsonValue(sig[1].v)]
        ELSE [ok |-> FALSE, value |-> [error |-> "SyntaxError"]]

\* JSON.parse: a value when the text is one JSON value (white space allowed
\* around it), a SyntaxError otherwise
JSONparse(text) ==
    LET sig == SelectSeq(text, LAMBDA k : k # Ws)
    IN  IF Len(sig) = 1 /\ sig[1].t = "json"
        THEN [ok |-> TRUE, value |-> JsonValue(sig[1].v)]
        ELSE [ok |-> FALSE, value |-> [error |-> "SyntaxError"]]

-----------------------------------------------------------------------------
(* Initial state *)

NoResponse == [status |-> 0, body |-> [none |-> TRUE]]
NoReq == [query |-> "", latitude |-> Undefined, longitude |-> Undefined,
          hasImage |-> FALSE, productName |-> ""]
NoArgs == [query |-> "", latitude |-> Undefined, longitude |-> Undefined]
NoOutcome == [kind |-> "none", value |-> [none |-> TRUE]]
NoCalls == [shops |-> 0, products |-> 0, judge |-> 0, vision |-> 0,
            load |-> 0, classify |-> 0, detect |-> 0, history |-> 0,
            storageErrors |-> 0]
NoStorage == [shops |-> "none", products |-> "none"]
NoFpCalls == [shops |-> 0, products |-> 0, judge |-> 0]
NoVision == [called |-> FALSE, threw |-> FALSE, text |-> ""]
NoDetect == [called |-> FALSE, threw |-> FALSE, detections |-> << >>]
NoTrend == [prices |-> << >>, pricesNull |-> TRUE, internalTrend |-> "",
            internalPrice |-> null, externalPrice |-> 0, error |-> "",
            storeErrors |-> 0, aiText |-> NoAI]
\* modules: tf, mobilenet and cocoSsd of lines 9-11
\* loads counts the model instances created since the process started
NothingLoaded ==
    [ modules |-> FALSE, mobileNetModel |-> FALSE, cocoModel |-> FALSE,
      loads |-> [mobileNet |-> 0, coco |-> 0] ]

\* no POST /sales request has been handled
NoSales == [items |-> << >>, attempted |-> << >>, recorded |-> << >>]

\* the locals of a handler that has not started
NoRequest ==
    [ pc |-> "idle", endpoint |-> "none", req |-> NoReq, response |-> NoResponse, sent |-> 0,
      fpArgs |-> NoArgs, fpCallNo |-> 0, storage |-> NoStorage, products |-> << >>,
      aiText |-> NoAI, fpOutcome |-> NoOutcome, fpCalls |-> NoFpCalls, reqCalls |-> NoCalls,
      identifiedFood |-> NullStr, classifierPredictions |-> << >>,
      visionOutcome |-> NoVision, detectOutcome |-> NoDetect, localOutcome |-> "none",
      trend |-> NoTrend ]

Init ==
    /\ env \in [USE_LOCAL_RANKING : BOOLEAN, geminiApiKey : BOOLEAN]
    /\ pc = "idle"
    /\ endpoint = "none"
    /\ req = NoReq
    /\ response = NoResponse
    /\ sent = 0
    /\ fpArgs = NoArgs
    /\ fpCallNo = 0
    /\ storage = NoStorage
    /\ products = << >>
    /\ aiText = NoAI
    /\ fpOutcome = NoOutcome
    /\ fpCalls = NoFpCalls
    /\ reqCalls = NoCalls
    /\ identifiedFood = NullStr
    /\ classifierPredictions = << >>
    /\ visionOutcome = NoVision
    /\ detectOutcome = NoDetect
    /\ localOutcome = "none"
    /\ loaded = NothingLoaded
    /\ market_price = << >>
    /\ trend = NoTrend
    /\ suspended = NoRequest
    /\ sales = NoSales

imageVars == << identifiedFood, classifierPredictions, visionOutcome, detectOutcome,
               localOutcome >>

\* a handler starts with fresh locals
AtRest == pc = "idle"

-----------------------------------------------------------------------------
(* findProducts: lines 89-229 *)

Returned(v) == [kind |-> "returned", value |-> v]
Threw(e) == [kind |-> "threw", value |-> [error |-> e]]

NoShopsResult ==
    [summary |-> <<"No shops found near your location.">>, recommendations |-> << >>]

\* query && String(query).trim().length > 0
HasFilter(query) == query # "" /\ Len(trim(Chars(query))) > 0

NoProductsResult(query) ==
    [ summary |-> <<"No products ">>
                  \o (IF HasFilter(query) THEN <<"matching \"", query, "\" ">> ELSE << >>)
                  \o <<"found in nearby shops.">>,
      recommendations |-> << >> ]

\* an assembly that sends the diagnostics alone
ImageBodyDiagnosticsOnly(result) ==
    [ detected_label |-> IF identifiedFood = "" THEN NullStr ELSE identifiedFood,
      predictions |-> classifierPredictions ]

\* { detected_label, predictions, ...searchResults }: a key of searchResults
\* replaces the key of the same name written before it
ImageBody(result) ==
    LET context == [ detected_label |-> IF identifiedFood = "" THEN NullStr
                                        ELSE identifiedFood,
                     predictions |-> classifierPredictions ]
    IN  IF result = JsonNull THEN context ELSE result @@ context

\* a catch that answers with an empty result
SearchCatchSwallow(e) ==
    [status |-> 200, body |-> [summary |-> <<"No results.">>, recommendations |-> << >>]]

\* the catch of POST /ai/search: lines 392-399
SearchCatch(e) ==
    IF e = "SyntaxError"
    THEN [status |-> 500,
          body |-> [error |-> "The AI returned a response that was not valid JSON."]]
    ELSE [status |-> 500, body |-> [error |-> "An internal error occurred."]]

\* the inner catch of POST /ai/search-by-image: lines 540-543
ImageFallbackCatch(e) ==
    [status |-> 500, body |-> [error |-> "An internal error occurred during image search."]]

\* a handler that ends without res.json
SendNothing(status, body) ==
    /\ response' = response
    /\ sent' = sent
    /\ pc' = "done"

\* res.status(status).json(body); the handler has nothing left to run
Send(status, body) ==
    /\ response' = [status |-> status, body |-> body]
    /\ sent' = sent + 1
    /\ pc' = "done"

\* what the caller of findProducts does with its outcome:
\* POST /ai/search lines 389-399, POST /ai/search-by-image lines 524-544
FpEnd(outcome) ==
    /\ fpOutcome' = outcome
    /\ CASE endpoint = "search" /\ outcome.kind = "returned" ->
              /\ Send(200, outcome.value)
              /\ UNCHANGED << fpArgs, fpCallNo >>
         [] endpoint = "search" /\ outcome.kind = "threw" ->
              /\ Send(SearchCatch(outcome.value.error).status,
                      SearchCatch(outcome.value.error).body)
              /\ UNCHANGED << fpArgs, fpCallNo >>
         [] endpoint = "image" /\ fpCallNo = 1 /\ outcome.kind = "returned" ->
              /\ Send(200, ImageBody(outcome.value))
              /\ UNCHANGED << fpArgs, fpCallNo >>
         [] endpoint = "image" /\ fpCallNo = 1 /\ outcome.kind = "threw" ->
              /\ pc' = "fp_shops"
              /\ fpCallNo' = 2
              /\ fpArgs' = [query |-> "Burger", latitude |-> req.latitude,
                            longitude |-> req.longitude]
              /\ UNCHANGED << response, sent >>
         [] endpoint = "image" /\ fpCallNo = 2 /\ outcome.kind = "returned" ->
              /\ Send(200, outcome.value)
              /\ UNCHANGED << fpArgs, fpCallNo >>
         [] endpoint = "image" /\ fpCallNo = 2 /\ outcome.kind = "threw" ->
              /\ Send(ImageFallbackCatch(outcome.value.error).status,
                      ImageFallbackCatch(outcome.value.error).body)
              /\ UNCHANGED << fpArgs, fpCallNo >>

StorageReplies == {"error", "null", "empty", "rows"}

\* the test without shops.length === 0
NoShopsNullOnly(reply) == reply = "null"

\* !shops || shops.length === 0: line 99
NoShops(reply) == reply \in {"null", "empty"}

\* await supabase.rpc('nearby_shops', ...): lines 93-101
NearbyShops ==
    /\ pc = "fp_shops"
    /\ products' = << >>
    /\ aiText' = NoAI
    /\ fpCalls' = [NoFpCalls EXCEPT !.shops = 1]
    /\ \E reply \in StorageReplies :
          /\ storage' = [NoStorage EXCEPT !.shops = reply]
          /\ reqCalls' = [reqCalls EXCEPT
                            !.shops = @ + 1,
                            !.storageErrors = IF reply = "error" THEN @ + 1 ELSE @]
          /\ CASE reply = "error" -> FpEnd(Threw("shopsError"))
               [] reply # "error" /\ NoShops(reply) -> FpEnd(Returned(NoShopsResult))
               [] OTHER ->
                    /\ pc' = "fp_products"
                    /\ UNCHANGED << fpOutcome, response, sent, fpArgs, fpCallNo >>
    /\ UNCHANGED << env, suspended, sales, endpoint, req, imageVars, loaded, market_price, trend >>

\* Rank whose catch answers with an empty result instead of falling through
RankNoFallthrough(rows, reply) ==
    LET parsed == JSONparse(cleanedText(reply.text))
    IN  IF env.USE_LOCAL_RANKING
        THEN DeterministicResult(rows, fpArgs.query, fpArgs.latitude, fpArgs.longitude)
        ELSE IF ~reply.threw /\ parsed.ok THEN parsed.value
        ELSE [summary |-> <<"AI unavailable.">>, recommendations |-> << >>]

\* lines 164-178 and 180-228, once the rows are known and the judge, if
\* asked, has answered
Rank(rows, reply) ==
    LET parsed == JSONparse(cleanedText(reply.text))
    IN  IF ~env.USE_LOCAL_RANKING /\ ~reply.threw /\ parsed.ok
        THEN parsed.value
        ELSE DeterministicResult(rows, fpArgs.query, fpArgs.latitude, fpArgs.longitude)

\* a service that asks the judge whatever the environment says
USE_LOCAL_RANKING_Ignored == FALSE

\* const USE_LOCAL_RANKING = process.env.USE_LOCAL_RANKING === 'true': line 165
USE_LOCAL_RANKING == env.USE_LOCAL_RANKING

\* await productsQuery: lines 105-120; with USE_LOCAL_RANKING the ranking follows
ProductsQuery ==
    /\ pc = "fp_products"
    /\ fpCalls' = [fpCalls EXCEPT !.products = @ + 1]
    /\ aiText' = aiText
    /\ \E reply \in {"error", "null", "rows"} :
          /\ storage' = [storage EXCEPT !.products = reply]
          /\ reqCalls' = [reqCalls EXCEPT
                            !.products = @ + 1,
                            !.storageErrors = IF reply = "error" THEN @ + 1 ELSE @]
          /\ CASE reply = "error" ->
                    /\ products' = products
                    /\ FpEnd(Threw("productsError"))
               [] reply = "null" ->
                    /\ products' = products
                    /\ FpEnd(Returned(NoProductsResult(fpArgs.query)))
               [] OTHER ->
                    \E rows \in ProductRows(fpArgs.query, HasFilter(fpArgs.query)) :
                       /\ products' = rows
                       /\ IF rows = << >>
                          THEN FpEnd(Returned(NoProductsResult(fpArgs.query)))
                          ELSE IF USE_LOCAL_RANKING
                          THEN FpEnd(Returned(Rank(rows, NoAI)))
                          ELSE /\ pc' = "fp_judge"
                               /\ UNCHANGED << fpOutcome, response, sent, fpArgs,
                                               fpCallNo >>
    /\ UNCHANGED << env, suspended, sales, endpoint, req, imageVars, loaded, market_price, trend >>

\* await model.generateContent(prompt) and the rest of findProducts: lines 166-228
Judge ==
    /\ pc = "fp_judge"
    /\ fpCalls' = [fpCalls EXCEPT !.judge = @ + 1]
    /\ reqCalls' = [reqCalls EXCEPT !.judge = @ + 1]
    /\ \E reply \in GenerateContent(env.geminiApiKey) :
          /\ aiText' = reply
          /\ FpEnd(Returned(Rank(products, reply)))
    /\ UNCHANGED << env, suspended, sales, endpoint, req, storage, products, imageVars, loaded,
                    market_price, trend >>

\* await model.generateContent(prompt) when the promise never settles: line
\* 169 sets no timeout, and nothing else resumes the call
JudgePending ==
    /\ pc = "fp_judge"
    /\ pc' = "fp_judge_pending"
    /\ fpCalls' = [fpCalls EXCEPT !.judge = @ + 1]
    /\ reqCalls' = [reqCalls EXCEPT !.judge = @ + 1]
    /\ UNCHANGED << env, suspended, sales, endpoint, req, response, sent, fpArgs, fpCallNo, storage, products,
                    aiText, fpOutcome, imageVars, loaded, market_price, trend >>

-----------------------------------------------------------------------------
(* POST /ai/search: lines 381-400 *)

SearchQueries == {"", "Burger", "pizza"}
JsonLatitudes == {Undefined, Num(0), Num(1)}
JsonLongitudes == {Undefined, Num(0), Num(1), Num(2)}

FreshRequest(ep, r) ==
    /\ AtRest
    /\ endpoint' = ep
    /\ req' = r
    /\ fpOutcome' = NoOutcome
    /\ fpCalls' = NoFpCalls
    /\ reqCalls' = NoCalls
    /\ storage' = NoStorage
    /\ products' = << >>
    /\ aiText' = NoAI
    /\ identifiedFood' = NullStr
    /\ classifierPredictions' = << >>
    /\ visionOutcome' = NoVision
    /\ detectOutcome' = NoDetect
    /\ localOutcome' = "none"
    /\ trend' = NoTrend

\* a check that forgets the longitude
SearchRejectsNoLongitude(query, latitude, longitude) ==
    query = "" \/ ~Truthy(latitude)

\* !query || !latitude || !longitude: line 385
SearchRejects(query, latitude, longitude) ==
    query = "" \/ ~Truthy(latitude) \/ ~Truthy(longitude)

Search ==
    \E query \in SearchQueries, latitude \in JsonLatitudes, longitude \in JsonLongitudes :
       /\ FreshRequest("search", [NoReq EXCEPT !.query = query, !.latitude = latitude,
                                               !.longitude = longitude])
       /\ IF SearchRejects(query, latitude, longitude)
          THEN /\ response' = [status |-> 400,
                               body |-> [error |-> "Query, latitude, and longitude are required."]]
               /\ sent' = 1
               /\ pc' = "done"
               /\ fpArgs' = NoArgs
               /\ fpCallNo' = 0
          ELSE /\ response' = NoResponse
               /\ sent' = 0
               /\ pc' = "fp_shops"
               /\ fpArgs' = [query |-> query, latitude |-> latitude, longitude |-> longitude]
               /\ fpCallNo' = 1
       /\ UNCHANGED << env, suspended, sales, loaded, market_price >>

-----------------------------------------------------------------------------
(* The earlier services, src/index.js and src/six.js: findProducts without *)
(* a fallback (index.js lines 41-105, six.js lines 99-176) and their POST  *)
(* /ai/search (index.js lines 214-231, six.js lines 317-336)               *)

IndexNoProductsResult(query) ==
    [ summary |-> <<"No products matching \"", query, "\" found in nearby shops.">>,
      recommendations |-> << >> ]

\* the catch of POST /ai/search: index.js lines 222-230
IndexSearchCatch(e) ==
    IF e = "SyntaxError"
    THEN [status |-> 500,
          body |-> [error |-> "The AI returned a response that was not valid JSON."]]
    ELSE [status |-> 500, body |-> [error |-> "An internal error occurred."]]

\* res.json(results) or the catch: index.js lines 220-230
IndexEnd(outcome) ==
    /\ fpOutcome' = outcome
    /\ IF outcome.kind = "returned"
       THEN Send(200, outcome.value)
       ELSE Send(IndexSearchCatch(outcome.value.error).status,
                 IndexSearchCatch(outcome.value.error).body)

\* index.js lines 214-219
IndexSearch ==
    \E query \in SearchQueries, latitude \in JsonLatitudes, longitude \in JsonLongitudes :
       /\ FreshRequest("index_search", [NoReq EXCEPT !.query = query, !.latitude = latitude,
                                                     !.longitude = longitude])
       /\ IF query = "" \/ ~Truthy(latitude) \/ ~Truthy(longitude)
          THEN /\ response' = [status |-> 400,
                               body |-> [error |-> "Query, latitude, and longitude are required."]]
               /\ sent' = 1
               /\ pc' = "done"
               /\ fpArgs' = NoArgs
               /\ fpCallNo' = 0
          ELSE /\ response' = NoResponse
               /\ sent' = 0
               /\ pc' = "ix_shops"
               /\ fpArgs' = [query |-> query, latitude |-> latitude, longitude |-> longitude]
               /\ fpCallNo' = 1
       /\ UNCHANGED << env, suspended, sales, loaded, market_price >>

\* await supabase.rpc('nearby_shops', ...): index.js lines 43-51
IndexNearbyShops ==
    /\ pc = "ix_shops"
    /\ fpCalls' = [NoFpCalls EXCEPT !.shops = 1]
    /\ \E reply \in StorageReplies :
          /\ storage' = [NoStorage EXCEPT !.shops = reply]
          /\ reqCalls' = [reqCalls EXCEPT
                            !.shops = @ + 1,
                            !.storageErrors = IF reply = "error" THEN @ + 1 ELSE @]
          /\ CASE reply = "error" -> IndexEnd(Threw("shopsError"))
               [] reply \in {"null", "empty"} -> IndexEnd(Returned(NoShopsResult))
               [] OTHER ->
                    /\ pc' = "ix_products"
                    /\ UNCHANGED << fpOutcome, response, sent >>
    /\ UNCHANGED << env, suspended, sales, endpoint, req, fpArgs, fpCallNo, products, aiText, imageVars,
                    loaded, market_price, trend >>

\* the products query, always filtered by name: index.js lines 54-63
IndexProductsQuery ==
    /\ pc = "ix_products"
    /\ fpCalls' = [fpCalls EXCEPT !.products = @ + 1]
    /\ \E reply \in {"error", "null", "rows"} :
          /\ storage' = [storage EXCEPT !.products = reply]
          /\ reqCalls' = [reqCalls EXCEPT
                            !.products = @ + 1,
                            !.storageErrors = IF reply = "error" THEN @ + 1 ELSE @]
          /\ CASE reply = "error" ->
                    /\ products' = products
                    /\ IndexEnd(Threw("productsError"))
               [] reply = "null" ->
                    /\ products' = products
                    /\ IndexEnd(Returned(IndexNoProductsResult(fpArgs.query)))
               [] OTHER ->
                    \E rows \in ProductRows(fpArgs.query, TRUE) :
                       /\ products' = rows
                       /\ IF rows = << >>
                          THEN IndexEnd(Returned(IndexNoProductsResult(fpArgs.query)))
                          ELSE /\ pc' = "ix_judge"
                               /\ UNCHANGED << fpOutcome, response, sent >>
    /\ UNCHANGED << env, suspended, sales, endpoint, req, fpArgs, fpCallNo, aiText, imageVars, loaded,
                    market_price, trend >>

\* await model.generateContent(prompt) and JSON.parse, outside any try of
\* findProducts: index.js lines 101-105
IndexJudge ==
    /\ pc = "ix_judge"
    /\ fpCalls' = [fpCalls EXCEPT !.judge = @ + 1]
    /\ reqCalls' = [reqCalls EXCEPT !.judge = @ + 1]
    /\ \E reply \in GenerateContent(env.geminiApiKey) :
          LET parsed == JSONparse(cleanedText(reply.text))
          IN  /\ aiText' = reply
              /\ IF reply.threw THEN IndexEnd(Threw("aiError"))
                 ELSE IF ~parsed.ok THEN IndexEnd(Threw("SyntaxError"))
                 ELSE IndexEnd(Returned(parsed.value))
    /\ UNCHANGED << env, suspended, sales, endpoint, req, fpArgs, fpCallNo, storage, products, imageVars,
                    loaded, market_price, trend >>

-----------------------------------------------------------------------------
(* POST /ai/search-by-image: lines 405-545 *)

MultipartLatitudes == {Undefined, Str(0)}
MultipartLongitudes == {Undefined, Str(2)}

\* a handler that searches for the default term when there is none
StartFindProductsDefault(food) ==
    /\ pc' = "fp_shops"
    /\ fpCallNo' = 1
    /\ fpArgs' = [query |-> IF food \in {NullStr, ""} THEN "Burger" ELSE food,
                  latitude |-> req.latitude, longitude |-> req.longitude]

\* the handler calls findProducts(searchTerm, latitude, longitude): lines 521-524
StartFindProducts(food) ==
    /\ pc' = "fp_shops"
    /\ fpCallNo' = 1
    /\ fpArgs' = [query |-> IF food \in {NullStr, ""} THEN "" ELSE food,
                  latitude |-> req.latitude, longitude |-> req.longitude]

\* lines 405-433
ImageSearch ==
    \E hasImage \in BOOLEAN, latitude \in MultipartLatitudes, longitude \in MultipartLongitudes :
       /\ FreshRequest("image", [NoReq EXCEPT !.hasImage = hasImage, !.latitude = latitude,
                                              !.longitude = longitude])
       /\ fpArgs' = NoArgs
       /\ fpCallNo' = 0
       /\ IF ~hasImage
          THEN /\ response' = [status |-> 400,
                               body |-> [error |-> "Image file (as \"foodImage\") is required."]]
               /\ sent' = 1
               /\ pc' = "done"
          ELSE IF ~Truthy(latitude) \/ ~Truthy(longitude)
          THEN /\ response' = [status |-> 400,
                               body |-> [error |-> "latitude and longitude are required."]]
               /\ sent' = 1
               /\ pc' = "done"
          ELSE /\ response' = NoResponse
               /\ sent' = 0
               /\ pc' = IF env.geminiApiKey THEN "vision" ELSE "local_load"
       /\ UNCHANGED << env, suspended, sales, loaded, market_price >>

VisionTexts == {"Burger", " Pizza ", ""}

VisionReplies ==
    {[called |-> TRUE, threw |-> TRUE, text |-> ""]} \cup
    { [called |-> TRUE, threw |-> FALSE, text |-> t] : t \in VisionTexts }

\* a test that sends every request on to the local classifier
UnresolvedAlways(food) == TRUE

\* !identifiedFood: line 448
Unresolved(food) == food \in {NullStr, ""}

\* AfterVision without the try of line 435: the rejection reaches the outer catch
AfterVisionUncaught(reply) ==
    LET food == IF reply.threw THEN NullStr
                ELSE StringOf(trim(Chars(reply.text)))
    IN  /\ visionOutcome' = reply
        /\ identifiedFood' = food
        /\ IF reply.threw
           THEN /\ pc' = "fp_shops"
                /\ fpCallNo' = 2
                /\ fpArgs' = [query |-> "Burger", latitude |-> req.latitude,
                              longitude |-> req.longitude]
           ELSE IF food \in {NullStr, ""}
           THEN /\ pc' = "local_load"
                /\ UNCHANGED << fpArgs, fpCallNo >>
           ELSE StartFindProducts(food)

\* the try/catch around the vision call and the test of line 448
AfterVision(reply) ==
    LET food == IF reply.threw THEN NullStr
                ELSE StringOf(trim(Chars(reply.text)))
    IN  /\ visionOutcome' = reply
        /\ identifiedFood' = food
        /\ IF Unresolved(food)
           THEN /\ pc' = "local_load"
                /\ UNCHANGED << fpArgs, fpCallNo >>
           ELSE StartFindProducts(food)

\* await model.generateContent([prompt, imagePart]): lines 435-448
Vision ==
    /\ pc = "vision"
    /\ reqCalls' = [reqCalls EXCEPT !.vision = @ + 1]
    /\ \E reply \in VisionReplies : AfterVision(reply)
    /\ UNCHANGED << env, suspended, sales, endpoint, req, response, sent, storage, products, aiText, fpOutcome,
                    fpCalls, classifierPredictions, detectOutcome, localOutcome, loaded,
                    market_price,
                    trend >>

\* catch (localErr) of line 514: identifiedFood keeps its value
LocalFailed ==
    /\ localOutcome' = "threw"
    /\ StartFindProducts(identifiedFood)
    /\ UNCHANGED << identifiedFood, classifierPredictions >>

\* ensureLocalClassifierLoaded up to the call of mobilenet.load: lines 43-54
LoadMobileNet ==
    /\ pc = "local_load"
    /\ IF loaded.mobileNetModel
       THEN /\ loaded' = [loaded EXCEPT !.modules = TRUE]
            /\ reqCalls' = reqCalls
            /\ pc' = "local_load_coco"
       ELSE /\ loaded' = [loaded EXCEPT !.modules = TRUE]
            /\ reqCalls' = [reqCalls EXCEPT !.load = @ + 1]
            /\ pc' = "await_mobilenet"
    /\ UNCHANGED << fpArgs, fpCallNo, localOutcome, identifiedFood, classifierPredictions >>
    /\ UNCHANGED << env, suspended, sales, endpoint, req, response, sent, storage, products, aiText, fpOutcome,
                    fpCalls, visionOutcome, detectOutcome, market_price, trend >>

\* mobilenet.load settles and global.__loadedMobileNetModel is assigned: line 54
MobileNetLoaded ==
    /\ pc = "await_mobilenet"
    /\ \E ok \in BOOLEAN :
          IF ok
          THEN /\ loaded' = [loaded EXCEPT !.mobileNetModel = TRUE,
                                           !.loads.mobileNet = @ + 1]
               /\ pc' = "local_load_coco"
               /\ UNCHANGED << fpArgs, fpCallNo, localOutcome, identifiedFood,
                               classifierPredictions >>
          ELSE /\ loaded' = loaded
               /\ LocalFailed
    /\ UNCHANGED << env, suspended, sales, endpoint, req, response, sent, storage, products, aiText, fpOutcome,
                    fpCalls, reqCalls, visionOutcome, detectOutcome, market_price, trend >>

\* ensureLocalClassifierLoaded, up to the call of cocoSsd.load: lines 56-58
LoadCoco ==
    /\ pc = "local_load_coco"
    /\ IF loaded.cocoModel
       THEN /\ reqCalls' = reqCalls
            /\ pc' = "local_classify"
       ELSE /\ reqCalls' = [reqCalls EXCEPT !.load = @ + 1]
            /\ pc' = "await_coco"
    /\ UNCHANGED << fpArgs, fpCallNo, localOutcome, identifiedFood, classifierPredictions >>
    /\ UNCHANGED << env, suspended, sales, endpoint, req, response, sent, storage, products, aiText, fpOutcome,
                    fpCalls, visionOutcome, detectOutcome, loaded, market_price, trend >>

\* cocoSsd.load settles and global.__loadedCocoModel is assigned: lines 58-60
CocoLoaded ==
    /\ pc = "await_coco"
    /\ \E ok \in BOOLEAN :
          IF ok
          THEN /\ loaded' = [loaded EXCEPT !.cocoModel = TRUE,
                                           !.loads.coco = @ + 1]
               /\ pc' = "local_classify"
               /\ UNCHANGED << fpArgs, fpCallNo, localOutcome, identifiedFood,
                               classifierPredictions >>
          ELSE /\ loaded' = loaded
               /\ LocalFailed
    /\ UNCHANGED << env, suspended, sales, endpoint, req, response, sent, storage, products, aiText, fpOutcome,
                    fpCalls, reqCalls, visionOutcome, detectOutcome, market_price, trend >>

Prediction(className, probability) == [className |-> className, probability |-> probability]

\* what mobileNetModel.classify(decoded, 5) can resolve to (probabilities in percent)
PredictionLists ==
    { << Prediction("cheeseburger", 90), Prediction("plate", 5) >>,
      << Prediction("plate", 60), Prediction("pizza, pizza pie", 30) >>,
      << Prediction("hotdog, hot dog, red hot", 70), Prediction("plate", 20) >>,
      << >> }

RECURSIVE FirstRule(_, _)
\* the first rule one of whose words the text includes gives the term
FirstRule(rules, t) ==
    IF rules = << >> THEN NullStr
    ELSE IF \E w \in Head(rules)[1] : IncludesCs(t, Chars(w)) THEN Head(rules)[2]
    ELSE FirstRule(Tail(rules), t)

\* lines 458-478
mapLabelToQuery(text) ==
    FirstRule(<< <<{"burger", "cheeseburger"}, "Burger">>,
                 <<{"pizza"}, "Pizza">>,
                 <<{"samosa"}, "Samosa">>,
                 <<{"cake", "cupcake", "pastry"}, "Cake">>,
                 <<{"sandwich", "submarine"}, "Sandwich">>,
                 <<{"donut", "doughnut"}, "Donut">>,
                 <<{"noodle", "pasta", "spaghetti"}, "Pasta">>,
                 <<{"biryani", "rice"}, "Biryani">>,
                 <<{"dosa"}, "Dosa">>,
                 <<{"idli"}, "Idli">>,
                 <<{"vada", "vadai"}, "Vada">>,
                 <<{"roll", "wrap"}, "Roll">>,
                 <<{"muffin", "cookie", "biscuit"}, "Cake">>,
                 <<{"ice cream", "ice-cream"}, "Ice Cream">>,
                 <<{"coffee"}, "Coffee">>,
                 <<{"tea"}, "Tea">>,
                 <<{"juice"}, "Juice">> >>,
              toLowerCase(Chars(text)))

\* lines 493-502
cocoToQuery(name) ==
    FirstRule(<< <<{"cake"}, "Cake">>,
                 <<{"pizza"}, "Pizza">>,
                 <<{"donut", "doughnut"}, "Donut">>,
                 <<{"sandwich"}, "Sandwich">>,
                 <<{"hot dog"}, "Burger">>,
                 <<{"banana", "apple", "orange"}, "Fruit">> >>,
              toLowerCase(Chars(name)))

RECURSIVE FirstGuess(_)
\* the loop of lines 483-486
FirstGuess(predictions) ==
    IF predictions = << >> THEN NullStr
    ELSE IF mapLabelToQuery(Head(predictions).className) # NullStr
    THEN mapLabelToQuery(Head(predictions).className)
    ELSE FirstGuess(Tail(predictions))

\* lines 480-487
LabelTier(predictions) ==
    LET top == IF predictions # << >> /\ predictions[1].className # ""
               THEN predictions[1].className ELSE ""
        fromTop == mapLabelToQuery(top)
    IN  IF fromTop # NullStr THEN fromTop ELSE FirstGuess(predictions)

\* await mobileNetModel.classify(decoded, 5) and the label lexicon: lines 452-489
Classify ==
    /\ pc = "local_classify"
    /\ reqCalls' = [reqCalls EXCEPT !.classify = @ + 1]
    /\ \E threw \in BOOLEAN, predictions \in PredictionLists :
          IF threw
          THEN LocalFailed
          ELSE /\ classifierPredictions' = predictions
               /\ identifiedFood' = LabelTier(predictions)
               /\ IF LabelTier(predictions) # NullStr
                  THEN /\ localOutcome' = "ok"
                       /\ StartFindProducts(LabelTier(predictions))
                  ELSE /\ pc' = "local_detect"
                       /\ UNCHANGED << fpArgs, fpCallNo, localOutcome >>
    /\ UNCHANGED << env, suspended, sales, endpoint, req, response, sent, storage, products, aiText, fpOutcome,
                    fpCalls, visionOutcome, detectOutcome, loaded, market_price, trend >>

Detection(class, score) == [class |-> class, score |-> score]

\* what cocoModel.detect(decoded2) can resolve to (scores in percent)
DetectionLists ==
    { << Detection("hot dog", 90) >>,
      << Detection("pizza", 20), Detection("person", 80) >>,
      << >> }

MinScore == 30

RECURSIVE DetectionTier(_)
\* the loop of lines 503-507
DetectionTier(detections) ==
    IF detections = << >> THEN NullStr
    ELSE IF Head(detections).score < MinScore THEN DetectionTier(Tail(detections))
    ELSE IF cocoToQuery(Head(detections).class) # NullStr
    THEN cocoToQuery(Head(detections).class)
    ELSE DetectionTier(Tail(detections))

RECURSIVE UpTo(_, _)
\* the part of cs before the first separator
UpTo(cs, sep) ==
    IF cs = << >> \/ Head(cs) = sep THEN << >> ELSE <<Head(cs)>> \o UpTo(Tail(cs), sep)

\* predictions[0].className.split(',')[0].trim(): line 511
RawLabel(predictions) == StringOf(trim(UpTo(Chars(predictions[1].className), ",")))

\* await cocoModel.detect(decoded2), the object lexicon and the raw label: lines 490-513
Detect ==
    /\ pc = "local_detect"
    /\ reqCalls' = [reqCalls EXCEPT !.detect = @ + 1]
    /\ \E threw \in BOOLEAN, detections \in DetectionLists :
          IF threw
          THEN /\ detectOutcome' = [called |-> TRUE, threw |-> TRUE, detections |-> << >>]
               /\ LocalFailed
          ELSE LET guess == DetectionTier(detections)
                   food == IF guess = NullStr /\ classifierPredictions # << >>
                           THEN RawLabel(classifierPredictions) ELSE guess
               IN  /\ detectOutcome' = [called |-> TRUE, threw |-> FALSE,
                                      detections |-> detections]
                   /\ identifiedFood' = food
                   /\ localOutcome' = "ok"
                   /\ classifierPredictions' = classifierPredictions
                   /\ StartFindProducts(food)
    /\ UNCHANGED << env, suspended, sales, endpoint, req, response, sent, storage, products, aiText, fpOutcome,
                    fpCalls, visionOutcome, loaded, market_price, trend >>

-----------------------------------------------------------------------------
(* GET /ai/market-trend/:productName: lines 577-695, and its helpers *)

\* prices a row of market_price can hold; the table has no check on the sign
Prices == {-10, 0, 95, 100, 105}
\* req.body.price of POST /market-price
BodyPrices == {Num(0), Str(0), Num(-10), Num(95)}
Jitter == {-10, 10}
TrendProducts == {"Burger", "Dosa"}
HistoryLimit == 30
DefaultBasePrice == 100

\* the table basePrices of lines 75-79; 0 where it has no entry
basePrices(name) ==
    CASE name = "burger" -> 150
      [] name = "pizza" -> 300
      [] name = "samosa" -> 20
      [] OTHER -> 0

\* lines 71-87; jitter is (Math.random() - 0.5) * 20
getOrSimulateExternalPrice(productName, jitter) ==
    LET found == basePrices(StringOf(toLowerCase(Chars(productName))))
        basePrice == IF found # 0 THEN found ELSE DefaultBasePrice
    IN  basePrice + jitter

\* price histories of one product, newest first: none, or a newest price
\* over a run of equal older ones (PostMarketPrice makes the others)
HistoryTables ==
    {<< >>} \cup { <<newest>> \o [i \in 1..n |-> older] :
                       newest \in Prices, older \in Prices, n \in 0..(MaxHistory - 1) }

\* .order('created_at', { ascending: false }).limit(30)
Recent(rows) == SubSeq(rows, 1, Min(HistoryLimit, Len(rows)))

RECURSIVE Sum(_)
Sum(s) == IF s = << >> THEN 0 ELSE Head(s) + Sum(Tail(s))

\* the classification with the thresholds themselves counted as a change
InternalTrendInclusive(prices, isNull) ==
    IF isNull \/ Len(prices) <= 1 THEN "Insufficient Data"
    ELSE LET latestPrice == prices[1]
             olderPrices == Tail(prices)
         IN  IF latestPrice * Len(olderPrices) * 100 >= Sum(olderPrices) * 105 THEN "Rising"
             ELSE IF latestPrice * Len(olderPrices) * 100 <= Sum(olderPrices) * 95 THEN "Falling"
             ELSE "Stable"

\* lines 593-610; latestPrice > avgOldPrice * 1.05 is compared in exact arithmetic
InternalTrend(prices, isNull) ==
    IF isNull \/ Len(prices) <= 1 THEN "Insufficient Data"
    ELSE LET latestPrice == prices[1]
             olderPrices == Tail(prices)
         IN  IF latestPrice * Len(olderPrices) * 100 > Sum(olderPrices) * 105 THEN "Rising"
             ELSE IF latestPrice * Len(olderPrices) * 100 < Sum(olderPrices) * 95 THEN "Falling"
             ELSE "Stable"

InternalPrice(prices, isNull) ==
    IF ~isNull /\ Len(prices) > 0 THEN prices[1] ELSE null

\* lines 656-668
FallbackTrend(prices, isNull) ==
    IF isNull \/ Len(prices) = 0 THEN "Insufficient Data"
    ELSE IF Len(prices) > 1
    THEN LET latestPrice == prices[1]
             olderPrices == Tail(prices)
         IN  IF latestPrice * Len(olderPrices) * 100 > Sum(olderPrices) * 105 THEN "Rising"
             ELSE IF latestPrice * Len(olderPrices) * 100 < Sum(olderPrices) * 95 THEN "Falling"
             ELSE "Stable"
    ELSE "Insufficient Data"

\* lines 671-687
RuleBased(internalTrend, internalPrice, externalPrice) ==
    IF internalTrend = "Rising" /\ internalPrice \notin {null, 0} /\ internalPrice < externalPrice
    THEN [ prediction |-> "BUY",
           reason |-> "Internal price trending up and below external market.",
           internal_price |-> internalPrice, external_price |-> externalPrice ]
    ELSE IF internalTrend = "Falling" /\ internalPrice \notin {null, 0}
            /\ internalPrice > externalPrice
    THEN [ prediction |-> "SELL",
           reason |-> "Internal price trending down and above external market.",
           internal_price |-> internalPrice, external_price |-> externalPrice ]
    ELSE [ prediction |-> "HOLD",
           reason |-> "Prices appear stable based on recent internal data.",
           internal_price |-> internalPrice, external_price |-> externalPrice ]

\* lines 577-580
Trend ==
    \E productName \in TrendProducts, rows \in HistoryTables :
       /\ FreshRequest("trend", [NoReq EXCEPT !.productName = productName])
       /\ market_price' = rows
       /\ response' = NoResponse
       /\ sent' = 0
       /\ pc' = "tr_history"
       /\ fpArgs' = NoArgs
       /\ fpCallNo' = 0
       /\ UNCHANGED << env, suspended, sales, loaded >>

HistoryReplies == {"error", "null", "rows"}

\* the first read of market_price, the trend and the external price: lines 583-615
TrendHistory ==
    /\ pc = "tr_history"
    /\ reqCalls' = [reqCalls EXCEPT !.history = @ + 1]
    /\ \E reply \in HistoryReplies, jitter \in Jitter :
          IF reply = "error"
          THEN /\ trend' = [trend EXCEPT !.error = "dbError", !.storeErrors = @ + 1]
               /\ pc' = "tr_fallback"
          ELSE LET isNull == reply = "null"
                   prices == IF isNull THEN << >> ELSE Recent(market_price)
               IN  /\ trend' = [trend EXCEPT
                                  !.prices = prices,
                                  !.pricesNull = isNull,
                                  !.internalTrend = InternalTrend(prices, isNull),
                                  !.internalPrice = InternalPrice(prices, isNull),
                                  !.externalPrice =
                                      getOrSimulateExternalPrice(req.productName, jitter)]
                   /\ pc' = "tr_judge"
    /\ UNCHANGED << env, suspended, sales, endpoint, req, response, sent, fpArgs, fpCallNo, storage, products, aiText,
                    fpOutcome, fpCalls, imageVars, loaded, market_price >>

\* await model.generateContent(prompt) and res.json(JSON.parse(text)): lines 638-645
TrendJudge ==
    /\ pc = "tr_judge"
    /\ reqCalls' = [reqCalls EXCEPT !.judge = @ + 1]
    /\ \E reply \in GenerateContent(env.geminiApiKey) :
          LET parsed == JSONparse(cleanedText(reply.text))
          IN  IF ~reply.threw /\ parsed.ok
              THEN /\ trend' = [trend EXCEPT !.aiText = reply]
                   /\ Send(200, parsed.value)
              ELSE /\ trend' = [trend EXCEPT
                                  !.aiText = reply,
                                  !.error = IF reply.threw THEN "aiError" ELSE "SyntaxError"]
                   /\ pc' = "tr_fallback"
                   /\ UNCHANGED << response, sent >>
    /\ UNCHANGED << env, suspended, sales, endpoint, req, fpArgs, fpCallNo, storage, products, aiText, fpOutcome,
                    fpCalls, imageVars, loaded, market_price >>

\* a catch block that keeps the history and the external price read before
\* the judge was asked
TrendFallbackFirstRead ==
    /\ pc = "tr_fallback"
    /\ reqCalls' = [reqCalls EXCEPT !.history = @ + 1]
    /\ LET internalTrend == FallbackTrend(trend.prices, trend.pricesNull)
           internalPrice == InternalPrice(trend.prices, trend.pricesNull)
       IN  /\ trend' = [trend EXCEPT !.internalTrend = internalTrend,
                                     !.internalPrice = internalPrice]
           /\ Send(200, RuleBased(internalTrend, internalPrice, trend.externalPrice))
    /\ UNCHANGED << env, suspended, sales, endpoint, req, fpArgs, fpCallNo, storage, products, aiText, fpOutcome,
                    fpCalls, imageVars, loaded, market_price >>

\* the catch block: second read, trend, external price and rules: lines 643-687
TrendFallback ==
    /\ pc = "tr_fallback"
    /\ reqCalls' = [reqCalls EXCEPT !.history = @ + 1]
    /\ \E reply \in HistoryReplies, jitter \in Jitter :
          LET isNull == reply # "rows"
              prices == IF isNull THEN << >> ELSE Recent(market_price)
              internalTrend == FallbackTrend(prices, isNull)
              internalPrice == InternalPrice(prices, isNull)
              externalPrice == getOrSimulateExternalPrice(req.productName, jitter)
          IN  /\ trend' = [trend EXCEPT
                             !.prices = prices,
                             !.pricesNull = isNull,
                             !.internalTrend = internalTrend,
                             !.internalPrice = internalPrice,
                             !.externalPrice = externalPrice,
                             !.storeErrors = IF reply = "error" THEN @ + 1 ELSE @]
              /\ Send(200, RuleBased(internalTrend, internalPrice, externalPrice))
    /\ UNCHANGED << env, suspended, sales, endpoint, req, fpArgs, fpCallNo, storage, products, aiText, fpOutcome,
                    fpCalls, imageVars, loaded, market_price >>

\* POST /market-price of another client while the trend request is in
\* flight: lines 552-571; !price rejects the number 0 and not the string "0"
PostMarketPrice ==
    /\ endpoint = "trend"
    /\ pc \in {"tr_judge", "tr_fallback"}     \* after the read of line 583
    /\ Len(market_price) < MaxHistory
    /\ \E price \in BodyPrices, insertError \in BOOLEAN :
          market_price' = IF ~Truthy(price) \/ insertError THEN market_price
                          ELSE <<ToNumber(price)>> \o market_price
    /\ UNCHANGED << env, suspended, sales, pc, endpoint, req, response, sent, fpArgs, fpCallNo, storage, products,
                    aiText, fpOutcome, fpCalls, reqCalls, imageVars, loaded, trend >>

-----------------------------------------------------------------------------
(* Two requests in flight: the handlers are async functions of one thread, *)
(* and at every await the other request may run                            *)

\* the locals of the running handler
Locals ==
    [ pc |-> pc, endpoint |-> endpoint, req |-> req, response |-> response, sent |-> sent,
      fpArgs |-> fpArgs, fpCallNo |-> fpCallNo, storage |-> storage, products |-> products,
      aiText |-> aiText, fpOutcome |-> fpOutcome, fpCalls |-> fpCalls, reqCalls |-> reqCalls,
      identifiedFood |-> identifiedFood, classifierPredictions |-> classifierPredictions,
      visionOutcome |-> visionOutcome, detectOutcome |-> detectOutcome,
      localOutcome |-> localOutcome, trend |-> trend ]

\* a service whose identifiedFood is declared at module level: one value
\* for both requests
SwitchSharedFood ==
    /\ pc # "idle" \/ suspended.pc # "idle"
    /\ suspended' = Locals
    /\ pc' = suspended.pc
    /\ endpoint' = suspended.endpoint
    /\ req' = suspended.req
    /\ response' = suspended.response
    /\ sent' = suspended.sent
    /\ fpArgs' = suspended.fpArgs
    /\ fpCallNo' = suspended.fpCallNo
    /\ storage' = suspended.storage
    /\ products' = suspended.products
    /\ aiText' = suspended.aiText
    /\ fpOutcome' = suspended.fpOutcome
    /\ fpCalls' = suspended.fpCalls
    /\ reqCalls' = suspended.reqCalls
    /\ identifiedFood' = identifiedFood
    /\ classifierPredictions' = suspended.classifierPredictions
    /\ visionOutcome' = suspended.visionOutcome
    /\ detectOutcome' = suspended.detectOutcome
    /\ localOutcome' = suspended.localOutcome
    /\ trend' = suspended.trend
    /\ UNCHANGED << env, loaded, market_price, sales >>

\* the running handler waits at its await and the other one resumes; the
\* module-level state and the store stay as they are
Switch ==
    /\ pc # "idle" \/ suspended.pc # "idle"
    /\ suspended' = Locals
    /\ pc' = suspended.pc
    /\ endpoint' = suspended.endpoint
    /\ req' = suspended.req
    /\ response' = suspended.response
    /\ sent' = suspended.sent
    /\ fpArgs' = suspended.fpArgs
    /\ fpCallNo' = suspended.fpCallNo
    /\ storage' = suspended.storage
    /\ products' = suspended.products
    /\ aiText' = suspended.aiText
    /\ fpOutcome' = suspended.fpOutcome
    /\ fpCalls' = suspended.fpCalls
    /\ reqCalls' = suspended.reqCalls
    /\ identifiedFood' = suspended.identifiedFood
    /\ classifierPredictions' = suspended.classifierPredictions
    /\ visionOutcome' = suspended.visionOutcome
    /\ detectOutcome' = suspended.detectOutcome
    /\ localOutcome' = suspended.localOutcome
    /\ trend' = suspended.trend
    /\ UNCHANGED << env, loaded, market_price, sales >>

\* the requests and collaborator replies considered for two requests in flight
Narrow ==
    /\ ~env.USE_LOCAL_RANKING
    /\ req.latitude \in {Undefined, Str(0), Num(1)}
    /\ req.longitude \in {Undefined, Str(2), Num(1)}
    /\ req.latitude = Undefined <=> req.longitude = Undefined
    /\ req.query \in {"", "Burger"}
    /\ storage.shops \in {"none", "rows"}
    /\ storage.products \in {"none", "rows"}
    /\ products \in { << >>, << Row(1, "Burger", 150, 40, ShopA) >> }
    /\ aiText \in {NoAI, AIThrow, [threw |-> FALSE, text |-> <<Json("good")>>]}
    /\ visionOutcome.text = ""
    /\ classifierPredictions \in
          { << >>, << Prediction("hotdog, hot dog, red hot", 70), Prediction("plate", 20) >> }
    /\ detectOutcome.detections \in { << >>, << Detection("hot dog", 90) >> }
    /\ req.productName \in {"", "Burger"}
    /\ market_price \in { << >>, <<105, 95>> }
    /\ trend.externalPrice \in {0, 160}
    /\ trend.aiText \in {NoAI, AIThrow, [threw |-> FALSE, text |-> <<Json("verdict")>>]}

ConcSearch == Search /\ Narrow'
ConcTrend == Trend /\ Narrow'
ConcTrendHistory == TrendHistory /\ Narrow'
ConcTrendJudge == TrendJudge /\ Narrow'
ConcTrendFallback == TrendFallback /\ Narrow'
ConcImageSearch == ImageSearch /\ Narrow'
ConcVision == Vision /\ Narrow'
ConcLoadMobileNet == LoadMobileNet /\ Narrow'
ConcMobileNetLoaded == MobileNetLoaded /\ Narrow'
ConcLoadCoco == LoadCoco /\ Narrow'
ConcCocoLoaded == CocoLoaded /\ Narrow'
ConcClassify == Classify /\ Narrow'
ConcDetect == Detect /\ Narrow'
ConcNearbyShops == NearbyShops /\ Narrow'
ConcProductsQuery == ProductsQuery /\ Narrow'
ConcJudge == Judge /\ Narrow'

-----------------------------------------------------------------------------

\* the response is out: the handler's locals are gone, the process state stays
Finish ==
    /\ pc = "done"
    /\ pc' = "idle"
    /\ endpoint' = "none"
    /\ req' = NoReq
    /\ response' = NoResponse
    /\ sent' = 0
    /\ fpArgs' = NoArgs
    /\ fpCallNo' = 0
    /\ storage' = NoStorage
    /\ products' = << >>
    /\ aiText' = NoAI
    /\ fpOutcome' = NoOutcome
    /\ fpCalls' = NoFpCalls
    /\ reqCalls' = NoCalls
    /\ identifiedFood' = NullStr
    /\ classifierPredictions' = << >>
    /\ visionOutcome' = NoVision
    /\ detectOutcome' = NoDetect
    /\ localOutcome' = "none"
    /\ market_price' = << >>
    /\ trend' = NoTrend
    /\ UNCHANGED << env, suspended, sales, loaded >>

Next ==
    \/ Search
    \/ ImageSearch
    \/ Trend
    \/ NearbyShops
    \/ ProductsQuery
    \/ Judge
    \/ JudgePending
    \/ Vision
    \/ LoadMobileNet
    \/ MobileNetLoaded
    \/ LoadCoco
    \/ CocoLoaded
    \/ Classify
    \/ Detect
    \/ TrendHistory
    \/ TrendJudge
    \/ TrendFallback
    \/ PostMarketPrice
    \/ Finish

Spec == Init /\ [][Next]_vars

\* the service receiving text searches only
NextSearch ==
    \/ Search
    \/ NearbyShops
    \/ ProductsQuery
    \/ Judge
    \/ JudgePending
    \/ Finish

SpecSearch == Init /\ [][NextSearch]_vars

\* the same service under the scheduling of the event loop: the store
\* answers and the continuation of a settled promise is run; whether the
\* generative model answers is not the server's to promise
SpecSearchLive ==
    /\ Init
    /\ [][NextSearch]_vars
    /\ WF_vars(NearbyShops)
    /\ WF_vars(ProductsQuery)
    /\ WF_vars(Finish)

\* the service of src/index.js (and src/six.js) receiving text searches
NextIndex ==
    \/ IndexSearch
    \/ IndexNearbyShops
    \/ IndexProductsQuery
    \/ IndexJudge
    \/ Finish

SpecIndex == Init /\ [][NextIndex]_vars

\* two requests in flight, each handled once
NextConcurrent ==
    \/ ConcSearch
    \/ ConcTrend
    \/ ConcTrendHistory
    \/ ConcTrendJudge
    \/ ConcTrendFallback
    \/ ConcImageSearch
    \/ ConcVision
    \/ ConcLoadMobileNet
    \/ ConcMobileNetLoaded
    \/ ConcLoadCoco
    \/ ConcCocoLoaded
    \/ ConcClassify
    \/ ConcDetect
    \/ ConcNearbyShops
    \/ ConcProductsQuery
    \/ ConcJudge
    \/ Switch

SpecConcurrent == Init /\ [][NextConcurrent]_vars

\* the service receiving text and image searches
NextSearches ==
    \/ Search
    \/ ImageSearch
    \/ Vision
    \/ LoadMobileNet
    \/ MobileNetLoaded
    \/ LoadCoco
    \/ CocoLoaded
    \/ Classify
    \/ Detect
    \/ NearbyShops
    \/ ProductsQuery
    \/ Judge
    \/ JudgePending
    \/ Finish

SpecSearches == Init /\ [][NextSearches]_vars

\* the service receiving image searches only
NextImage ==
    \/ ImageSearch
    \/ Vision
    \/ LoadMobileNet
    \/ MobileNetLoaded
    \/ LoadCoco
    \/ CocoLoaded
    \/ Classify
    \/ Detect
    \/ NearbyShops
    \/ ProductsQuery
    \/ Judge
    \/ JudgePending
    \/ Finish

SpecImage == Init /\ [][NextImage]_vars

\* the service receiving trend requests, and price observations meanwhile
NextTrend ==
    \/ Trend
    \/ TrendHistory
    \/ TrendJudge
    \/ TrendFallback
    \/ PostMarketPrice
    \/ Finish

SpecTrend == Init /\ [][NextTrend]_vars

-----------------------------------------------------------------------------
(* Properties *)

\* the text, fences and white space set aside, is not one JSON value
NotJson(text) ==
    LET core == SelectSeq(text, LAMBDA k : k \notin {FenceJson, Fence, Ws})
    IN  ~(Len(core) = 1 /\ core[1].t = "json")

\* the running findProducts call had rows to rank, asked the judge and got
\* a rejection or a text that is not JSON
JudgeFailed ==
    /\ fpOutcome.kind = "returned"
    /\ products # << >>
    /\ fpCalls.judge = 1
    /\ (aiText.threw \/ NotJson(aiText.text))

\* the running findProducts call returned the deterministic ranking
DeterministicTaken ==
    /\ fpOutcome.kind = "returned"
    /\ products # << >>
    /\ (env.USE_LOCAL_RANKING \/ (fpCalls.judge = 1 /\ (aiText.threw \/ NotJson(aiText.text))))

\* C1: when the judge's reply is not parseable JSON, or the call throws,
\* findProducts returns exactly the deterministic ranking of the same rows,
\* query and location.
C1_FallbackEqualsDeterministic ==
    JudgeFailed =>
        fpOutcome.value = DeterministicResult(products, fpArgs.query, fpArgs.latitude,
                                              fpArgs.longitude)

C1_Witness ==
    /\ JudgeFailed
    /\ ~aiText.threw
    /\ Len(products) >= 2
    /\ pc = "done"
    /\ response.status = 200

\* position of row i of products in the recommendations; Len + 1 when left out
Position(i) ==
    LET recs == fpOutcome.value.recommendations
        e == Enrich(products[i], fpArgs.latitude, fpArgs.longitude)
        at == { k \in 1..Len(recs) : recs[k] = RankedItem(e, k) }
    IN  IF at = {} THEN Len(recs) + 1 ELSE CHOOSE k \in at : TRUE

\* C2: in the deterministic ranking, of two candidates at equal distance
\* (both unknown included) the cheaper one is ranked first, and at equal
\* price (both missing included) the better rated one is ranked first.
C2_TieBreakByPriceThenRating ==
    DeterministicTaken =>
        \A i, j \in 1..Len(products) :
            LET a == Enrich(products[i], fpArgs.latitude, fpArgs.longitude)
                b == Enrich(products[j], fpArgs.latitude, fpArgs.longitude)
            IN  (/\ a.distance_km = b.distance_km
                 /\ \/ a.price < b.price
                    \/ (a.price = b.price /\ a.rating > b.rating))
                => \/ Position(i) < Position(j)
                   \/ Position(j) = Len(fpOutcome.value.recommendations) + 1

\* C3: the deterministic ranking of n >= 1 candidates has min(3, n)
\* recommendations, ranked 1, 2, ... in output order.
C3_TopThreeRankedFromOne ==
    DeterministicTaken =>
        LET recs == fpOutcome.value.recommendations
        IN  /\ Len(recs) = Min(3, Len(products))
            /\ \A i \in 1..Len(recs) : recs[i].rank = i

C3_Witness ==
    /\ DeterministicTaken
    /\ Len(products) = 4
    /\ Len(fpOutcome.value.recommendations) = 3

\* C4: every result findProducts returns, from the judge or from the
\* deterministic path, has at most 3 recommendations, their ranks strictly
\* increasing from 1.
C4_EveryResultAtMostThreeRanked ==
    (fpOutcome.kind = "returned" /\ "recommendations" \in DOMAIN fpOutcome.value) =>
        LET recs == fpOutcome.value.recommendations
        IN  /\ Len(recs) <= 3
            /\ recs # << >> => recs[1].rank = 1
            /\ \A i \in 1..(Len(recs) - 1) : recs[i].rank < recs[i + 1].rank

\* C5: when the shop lookup finds no shops (null or empty), findProducts
\* returns the no-shops result and queries neither the products nor the judge.
C5_NoShopsShortCircuit ==
    storage.shops \in {"null", "empty"} =>
        /\ fpOutcome = Returned([summary |-> <<"No shops found near your location.">>,
                                 recommendations |-> << >>])
        /\ fpCalls.products = 0
        /\ fpCalls.judge = 0
        /\ storage.products = "none"

C5_Witness ==
    /\ storage.shops = "empty"
    /\ pc = "done"
    /\ fpOutcome.kind = "returned"
    /\ fpCalls.shops = 1

\* C6: an image search whose storage call failed answers with an error,
\* never with a result.
C6_ImageStorageFailureIsAnError ==
    (endpoint = "image" /\ pc = "done" /\ reqCalls.storageErrors > 0) =>
        response.status >= 500

\* C7: a trend request whose price-history read reported an error answers
\* with an error, never with a verdict.
C7_TrendStorageFailureIsAnError ==
    (endpoint = "trend" /\ pc = "done" /\ trend.error = "dbError") =>
        /\ response.status >= 500
        /\ "prediction" \notin DOMAIN response.body

\* C8: a text search whose shop lookup or product query reports an error
\* ends findProducts with a throw, answers 500 with an error body and no
\* recommendations, and never calls the judge.
C8_SearchStorageErrorIs500 ==
    (endpoint = "search" /\ (storage.shops = "error" \/ storage.products = "error")) =>
        /\ fpOutcome.kind = "threw"
        /\ pc = "done"
        /\ sent = 1
        /\ response.status = 500
        /\ DOMAIN response.body = {"error"}
        /\ reqCalls.judge = 0

C8_Witness ==
    /\ endpoint = "search"
    /\ storage.shops = "rows"
    /\ storage.products = "error"
    /\ response.status = 500

\* the image request passed the checks of lines 412-417
ImageAccepted ==
    /\ endpoint = "image"
    /\ req.hasImage
    /\ Truthy(req.latitude)
    /\ Truthy(req.longitude)

\* C9: an image search whose vision call throws, or that has no credential,
\* goes through the local tiers and, the store answering, ends with a
\* result and not with an error.
C9_VisionFailureIsAbsorbed ==
    (/\ ImageAccepted
     /\ pc = "done"
     /\ (visionOutcome.threw \/ ~env.geminiApiKey)
     /\ reqCalls.storageErrors = 0) =>
        /\ response.status = 200
        /\ sent = 1
        /\ localOutcome \in {"ok", "threw"}
        /\ "detected_label" \in DOMAIN response.body

C9_Witness ==
    /\ ImageAccepted
    /\ pc = "done"
    /\ visionOutcome.threw
    /\ reqCalls.storageErrors = 0
    /\ reqCalls.classify = 1
    /\ response.status = 200

\* the trend request read the store without an error, asked the model and
\* got a rejection or a text that is not JSON
TrendJudgeFailed ==
    /\ endpoint = "trend"
    /\ pc = "done"
    /\ trend.storeErrors = 0
    /\ reqCalls.judge = 1
    /\ (trend.aiText.threw \/ NotJson(trend.aiText.text))

\* C10: a trend request whose model call throws or answers with a text that
\* is not JSON, the store answering, gets the rule-based verdict with
\* status 200.
C10_TrendAIFailureGivesRuleVerdict ==
    TrendJudgeFailed =>
        /\ response.status = 200
        /\ sent = 1
        /\ DOMAIN response.body =
               {"prediction", "reason", "internal_price", "external_price"}
        /\ response.body.prediction \in {"BUY", "SELL", "HOLD"}
        /\ response.body = RuleBased(FallbackTrend(trend.prices, trend.pricesNull),
                                     InternalPrice(trend.prices, trend.pricesNull),
                                     trend.externalPrice)

C10_Witness ==
    /\ TrendJudgeFailed
    /\ ~trend.aiText.threw
    /\ response.status = 200
    /\ response.body.prediction = "BUY"

\* the trend request was answered by the rules of the catch block
RuleVerdictSent ==
    /\ endpoint = "trend"
    /\ pc = "done"
    /\ reqCalls.history = 2

\* C11: the rule-based verdict is BUY exactly when the trend is Rising and
\* the internal price is below the external one, SELL exactly when the
\* trend is Falling and the internal price is above the external one (BUY
\* tested first), and HOLD in every other case.
C11_RuleVerdict ==
    RuleVerdictSent =>
        LET buy == trend.internalTrend = "Rising"
                   /\ trend.internalPrice < trend.externalPrice
            sell == trend.internalTrend = "Falling"
                    /\ trend.internalPrice > trend.externalPrice
        IN  response.body.prediction =
                (IF buy THEN "BUY" ELSE IF sell THEN "SELL" ELSE "HOLD")

\* the trend of a history h, newest first, with m the mean of the older
\* observations: newest > 1.05 * m is 20 * n * newest > 21 * (m * n)
TrendOf(h) ==
    IF Len(h) < 2 THEN "Insufficient Data"
    ELSE LET n == Len(h) - 1
             total == Sum(Tail(h))
         IN  IF 20 * n * h[1] > 21 * total THEN "Rising"
             ELSE IF 20 * n * h[1] < 19 * total THEN "Falling"
             ELSE "Stable"

\* C12: the trend is Insufficient Data below 2 observations, else Rising
\* iff newest > 1.05 * mean of the older ones, Falling iff newest < 0.95 *
\* that mean, Stable otherwise; the AI path and the fallback path compute
\* the same trend for the same history.
C12_TrendClassification ==
    (endpoint = "trend" /\ trend.internalTrend # "") =>
        /\ trend.internalTrend = TrendOf(trend.prices)
        /\ InternalTrend(trend.prices, trend.pricesNull)
               = FallbackTrend(trend.prices, trend.pricesNull)
        /\ InternalTrend(Recent(market_price), FALSE)
               = FallbackTrend(Recent(market_price), FALSE)

C12_Witness ==
    /\ endpoint = "trend"
    /\ pc = "tr_judge"
    /\ Len(trend.prices) = 3
    /\ 20 * 2 * trend.prices[1] = 21 * Sum(Tail(trend.prices))
    /\ trend.prices[1] > 0
    /\ trend.internalTrend = "Stable"

\* the image request reached product retrieval without a term
TermIsNull ==
    /\ ImageAccepted
    /\ fpCallNo >= 1
    /\ identifiedFood \in {NullStr, ""}

C14_DiagnosticsOnEverySuccess ==
    (endpoint = "image" /\ pc = "done" /\ response.status = 200) =>
        {"detected_label", "predictions"} \subseteq DOMAIN response.body

\* C15: a text search whose judge call never completes still sends its
\* response in the end, as after any other failure of the judge.
C15_SearchEventuallyAnswers ==
    (endpoint = "search" /\ pc = "fp_judge_pending") ~> (sent = 1)

\* C16: a text search without query, latitude or longitude, and an image
\* search without image, latitude or longitude, is answered 400 before any
\* call to the store, the generative model or the classifier.
C16_RejectedBeforeCollaborators ==
    LET missing ==
            \/ /\ endpoint = "search"
               /\ (req.query = "" \/ req.latitude = Undefined \/ req.longitude = Undefined)
            \/ /\ endpoint = "image"
               /\ (~req.hasImage \/ req.latitude = Undefined \/ req.longitude = Undefined)
    IN  missing =>
            /\ pc = "done"
            /\ sent = 1
            /\ response.status = 400
            /\ DOMAIN response.body = {"error"}
            /\ reqCalls = NoCalls
            /\ fpCalls = NoFpCalls
            /\ fpCallNo = 0
            /\ storage = NoStorage
            /\ ~visionOutcome.called
            /\ aiText = NoAI

C16_Witness ==
    /\ endpoint = "search"
    /\ req.query = "Burger"
    /\ req.latitude = Num(1)
    /\ req.longitude = Undefined
    /\ response.status = 400

\* C17: in src/index.js and src/six.js, a text search that found products
\* and whose judge call threw, or answered with a text that is not JSON,
\* is not answered with an error.
C17_IndexJudgeFailureInvisible ==
    (/\ endpoint = "index_search"
     /\ pc = "done"
     /\ reqCalls.storageErrors = 0
     /\ products # << >>
     /\ fpCalls.judge = 1
     /\ (aiText.threw \/ NotJson(aiText.text))) =>
        /\ response.status = 200
        /\ "error" \notin DOMAIN response.body

\* the keys of a result and of a recommendation of the deterministic path
ResultFields == {"summary", "recommendations"}
RecommendationFields ==
    { "rank", "product_name", "price", "rating", "shop_name", "shop_contact_number",
      "shop_email", "distance_km", "reason" }

HasFieldSet(result) ==
    /\ DOMAIN result = ResultFields
    /\ \A i \in DOMAIN result.recommendations :
          DOMAIN result.recommendations[i] = RecommendationFields

\* C18: every result findProducts returns, from the generative model or from
\* the deterministic ranking, has a summary and a recommendations sequence
\* whose elements carry rank, product_name, price, rating, shop_name,
\* shop_contact_number, shop_email, distance_km and reason.
C18_SameFieldSet ==
    (/\ endpoint = "search"
     /\ fpOutcome.kind = "returned"
     /\ "recommendations" \in DOMAIN fpOutcome.value) => HasFieldSet(fpOutcome.value)

\* the vision call answered a text that is not empty once trimmed
VisionTerm ==
    /\ visionOutcome.called
    /\ ~visionOutcome.threw
    /\ StringOf(trim(Chars(visionOutcome.text))) # ""

\* positions of the classifier labels the label lexicon maps
MappedLabels ==
    { i \in DOMAIN classifierPredictions :
        mapLabelToQuery(classifierPredictions[i].className) # NullStr }

\* positions of the detections of a sufficient score the object lexicon maps
MappedDetections ==
    { i \in DOMAIN detectOutcome.detections :
        /\ detectOutcome.detections[i].score >= MinScore
        /\ cocoToQuery(detectOutcome.detections[i].class) # NullStr }

FirstOf(S) == CHOOSE i \in S : \A j \in S : i <= j

\* C19: in the image handler a tier runs only when the tiers before it gave
\* no term, and a term is never overwritten: after a vision text that is
\* not empty neither model is loaded or called and the term is that text;
\* when the label lexicon maps one of the labels the detector is not called
\* and the term is the lexicon's; a term of the object lexicon stays; the
\* raw top label is the term only when neither lexicon mapped anything.
C19_TierOrder ==
    endpoint = "image" =>
        /\ VisionTerm =>
              /\ reqCalls.load = 0 /\ reqCalls.classify = 0 /\ reqCalls.detect = 0
              /\ ~detectOutcome.called
              /\ classifierPredictions = << >>
              /\ identifiedFood = StringOf(trim(Chars(visionOutcome.text)))
        /\ MappedLabels # {} =>
              /\ reqCalls.detect = 0
              /\ ~detectOutcome.called
              /\ identifiedFood =
                    IF 1 \in MappedLabels
                    THEN mapLabelToQuery(classifierPredictions[1].className)
                    ELSE mapLabelToQuery(classifierPredictions[FirstOf(MappedLabels)].className)
        /\ MappedDetections # {} =>
              identifiedFood =
                  cocoToQuery(detectOutcome.detections[FirstOf(MappedDetections)].class)
        /\ (/\ classifierPredictions # << >>
            /\ identifiedFood = RawLabel(classifierPredictions)) =>
              /\ MappedLabels = {}
              /\ detectOutcome.called /\ ~detectOutcome.threw
              /\ MappedDetections = {}

\* the vision call answered nothing, the label lexicon mapped no label and
\* the object lexicon gave the term the response carries
C19_Witness ==
    /\ endpoint = "image"
    /\ pc = "done"
    /\ response.status = 200
    /\ visionOutcome.called /\ ~visionOutcome.threw /\ ~VisionTerm
    /\ classifierPredictions # << >>
    /\ MappedLabels = {}
    /\ MappedDetections # {}
    /\ identifiedFood = "Burger"
    /\ response.body.detected_label = "Burger"

\* the local block ran to the detector with labels that no lexicon mapped
RawLabelCase ==
    /\ endpoint = "image"
    /\ classifierPredictions # << >>
    /\ MappedLabels = {}
    /\ detectOutcome.called
    /\ MappedDetections = {}

\* C20: whenever the classifier returned at least one label and neither
\* lexicon produced a term, the term is the first comma-delimited token of
\* the top label, trimmed, also when the detector failed.
C20_RawLabelResolved ==
    RawLabelCase => identifiedFood = RawLabel(classifierPredictions)

\* C21: under any interleaving of image searches that reach the local
\* tiers, each on-device model is loaded at most once since the process
\* started.
C21_LoadedAtMostOnce ==
    /\ loaded.loads.mobileNet <= 1
    /\ loaded.loads.coco <= 1

\* the row's shop is missing, or one of its coordinates is
NoCoordinates(p) ==
    \/ ~p.shops.present
    \/ p.shops.latitude = null
    \/ p.shops.longitude = null

\* C22: in the deterministic ranking a candidate whose shop lacks a
\* coordinate has distance +Infinity, comes after every candidate with a
\* finite distance and is reported with distance_km null; a candidate with
\* a finite distance is reported with it rounded to 2 decimals.
C22_MissingCoordinatesLast ==
    DeterministicTaken =>
        LET recs == fpOutcome.value.recommendations
        IN  \A i \in 1..Len(products) :
               LET a == Enrich(products[i], fpArgs.latitude, fpArgs.longitude)
                   r == recs[Position(i)].distance_km
               IN  /\ NoCoordinates(products[i]) <=> a.distance_km = Infinity
                   /\ NoCoordinates(products[i]) =>
                         /\ \A j \in 1..Len(products) :
                               ~NoCoordinates(products[j]) =>
                                   \/ Position(j) < Position(i)
                                   \/ Position(i) = Len(recs) + 1
                         /\ Position(i) <= Len(recs) => r = null
                   /\ (~NoCoordinates(products[i]) /\ Position(i) <= Len(recs)) =>
                         /\ r # null
                         /\ 10000 * r - 5000 <= a.distance_km
                         /\ a.distance_km < 10000 * r + 5000

\* a row without coordinates listed before a row with coordinates, both
\* among the recommendations, the first reported without a distance
C22_Witness ==
    /\ DeterministicTaken
    /\ Len(products) >= 2
    /\ NoCoordinates(products[1])
    /\ ~NoCoordinates(products[2])
    /\ Position(1) <= Len(fpOutcome.value.recommendations)
    /\ Position(2) < Position(1)
    /\ fpOutcome.value.recommendations[Position(1)].distance_km = null
    /\ fpOutcome.value.recommendations[Position(2)].distance_km > 0

\* C23: in the deterministic ranking, among candidates at the same distance
\* one without a finite price comes after every one with a price and is
\* reported with price null; a missing rating is reported as 0.
C23_MissingPriceLast ==
    DeterministicTaken =>
        LET recs == fpOutcome.value.recommendations
        IN  \A i \in 1..Len(products) :
               LET a == Enrich(products[i], fpArgs.latitude, fpArgs.longitude)
               IN  /\ (~IsFiniteNumber(products[i].price)) =>
                         /\ \A j \in 1..Len(products) :
                               LET b == Enrich(products[j], fpArgs.latitude, fpArgs.longitude)
                               IN  (/\ a.distance_km = b.distance_km
                                    /\ IsFiniteNumber(products[j].price)) =>
                                       \/ Position(j) < Position(i)
                                       \/ Position(i) = Len(recs) + 1
                         /\ Position(i) <= Len(recs) => recs[Position(i)].price = null
                   /\ (products[i].rating = null /\ Position(i) <= Len(recs)) =>
                         recs[Position(i)].rating = 0

\* a call of findProducts has returned or thrown
CallEnded ==
    /\ fpOutcome.kind # "none"
    /\ pc \notin {"fp_shops", "fp_products", "fp_judge", "fp_judge_pending"}

\* C24: with USE_LOCAL_RANKING a call of findProducts never asks the judge
\* and a call that found candidates returns their deterministic ranking;
\* without it a call that found candidates asks the judge exactly once, and
\* the judge is asked only after the shop lookup and the product query have
\* both answered with rows.
C24_JudgeAskedOnceOrNever ==
    /\ env.USE_LOCAL_RANKING =>
          /\ fpCalls.judge = 0
          /\ reqCalls.judge = 0
          /\ (CallEnded /\ fpOutcome.kind = "returned" /\ products # << >>) =>
                fpOutcome.value = DeterministicResult(products, fpArgs.query,
                                                      fpArgs.latitude, fpArgs.longitude)
    /\ (~env.USE_LOCAL_RANKING /\ CallEnded /\ products # << >>) => fpCalls.judge = 1
    /\ fpCalls.judge <= 1
    /\ fpCalls.judge = 1 =>
          /\ fpCalls.shops = 1 /\ storage.shops = "rows"
          /\ fpCalls.products = 1 /\ storage.products = "rows"
          /\ products # << >>

\* a call that found two candidates and asked the judge once
C24_Witness ==
    /\ ~env.USE_LOCAL_RANKING
    /\ CallEnded
    /\ Len(products) >= 2
    /\ fpCalls = [shops |-> 1, products |-> 1, judge |-> 1]
    /\ pc = "done"

\* the image handler answered from its try block with the object findProducts returned
ImageAssembled ==
    /\ endpoint = "image"
    /\ pc = "done"
    /\ response.status = 200
    /\ fpCallNo = 1
    /\ fpOutcome.kind = "returned"
    /\ fpOutcome.value # JsonNull

\* C25: the image response carries every key of the result findProducts
\* returned with the value it had (summary and recommendations among them),
\* whichever path ranked, and adds nothing but detected_label and predictions.
C25_ResultUnchanged ==
    ImageAssembled =>
        /\ \A k \in DOMAIN fpOutcome.value :
              /\ k \in DOMAIN response.body
              /\ response.body[k] = fpOutcome.value[k]
        /\ (DOMAIN response.body) \ (DOMAIN fpOutcome.value) \subseteq
              {"detected_label", "predictions"}

\* a ranking of two rows answered together with a detected label
C25_Witness ==
    /\ ImageAssembled
    /\ DOMAIN fpOutcome.value = {"summary", "recommendations"}
    /\ Len(fpOutcome.value.recommendations) >= 2
    /\ response.body.recommendations = fpOutcome.value.recommendations
    /\ response.body.summary = fpOutcome.value.summary
    /\ response.body.detected_label = "Burger"
    /\ DeterministicTaken

\* what findProducts gives for the replies the running call received
AloneFindProducts ==
    IF storage.shops = "error" THEN Threw("shopsError")
    ELSE IF NoShops(storage.shops) THEN Returned(NoShopsResult)
    ELSE IF storage.products = "error" THEN Threw("productsError")
    ELSE IF storage.products = "null" \/ products = << >>
    THEN Returned(NoProductsResult(fpArgs.query))
    ELSE Returned(Rank(products, aiText))

\* the label the image handler reports for the replies the request received
AloneLabel ==
    IF VisionTerm THEN StringOf(trim(Chars(visionOutcome.text)))
    ELSE IF localOutcome = "threw" THEN NullStr
    ELSE IF MappedLabels # {}
    THEN mapLabelToQuery(classifierPredictions[FirstOf(MappedLabels)].className)
    ELSE IF MappedDetections # {}
    THEN cocoToQuery(detectOutcome.detections[FirstOf(MappedDetections)].class)
    ELSE IF classifierPredictions # << >> THEN RawLabel(classifierPredictions)
    ELSE NullStr

\* the response of the running request as its handler computes it from the
\* request and from the replies of the collaborators, nothing else
AloneResponse ==
    CASE endpoint = "search" ->
           IF SearchRejects(req.query, req.latitude, req.longitude)
           THEN [status |-> 400,
                 body |-> [error |-> "Query, latitude, and longitude are required."]]
           ELSE IF AloneFindProducts.kind = "returned"
           THEN [status |-> 200, body |-> AloneFindProducts.value]
           ELSE SearchCatch(AloneFindProducts.value.error)
      [] endpoint = "image" ->
           IF ~req.hasImage
           THEN [status |-> 400,
                 body |-> [error |-> "Image file (as \"foodImage\") is required."]]
           ELSE IF ~Truthy(req.latitude) \/ ~Truthy(req.longitude)
           THEN [status |-> 400, body |-> [error |-> "latitude and longitude are required."]]
           ELSE IF AloneFindProducts.kind = "threw"
           THEN ImageFallbackCatch(AloneFindProducts.value.error)
           ELSE IF fpCallNo = 2
           THEN [status |-> 200, body |-> AloneFindProducts.value]
           ELSE LET context == [ detected_label |-> AloneLabel,
                                 predictions |-> classifierPredictions ]
                    result == AloneFindProducts.value
                IN  [status |-> 200,
                     body |-> IF result = JsonNull THEN context ELSE result @@ context]
      [] endpoint = "trend" ->
           LET parsed == JSONparse(cleanedText(trend.aiText.text))
           IN  IF reqCalls.judge = 1 /\ ~trend.aiText.threw /\ parsed.ok
               THEN [status |-> 200, body |-> parsed.value]
               ELSE [status |-> 200,
                     body |-> RuleBased(FallbackTrend(trend.prices, trend.pricesNull),
                                        InternalPrice(trend.prices, trend.pricesNull),
                                        trend.externalPrice)]

\* C26: with two requests in flight, whatever the interleaving, the response
\* of a request is the one its handler computes from the request and the
\* replies of its own collaborator calls; the other request changes nothing
\* of it.
C26_ResponseAsAlone ==
    pc = "done" =>
        /\ sent = 1
        /\ response = AloneResponse

\* an image search answered after the other request, a text search, was
\* started and handled while it waited for the classifier
C26_Witness ==
    /\ pc = "done"
    /\ endpoint = "image"
    /\ response.status = 200
    /\ {"detected_label", "recommendations"} \subseteq DOMAIN response.body
    /\ response.body.detected_label = "Burger"
    /\ MappedDetections # {}
    /\ Len(response.body.recommendations) = 1
    /\ suspended.pc = "done"
    /\ suspended.endpoint = "search"
    /\ suspended.response.status = 200
    /\ suspended.identifiedFood = NullStr

\* the request carries every required input (its coordinates are all within range)
EveryInputSupplied ==
    /\ req.latitude # Undefined
    /\ req.longitude # Undefined
    /\ \/ endpoint = "search" /\ req.query # ""
       \/ endpoint = "image" /\ req.hasImage

\* C27: a text or image search that supplies every required input, latitude
\* 0 or longitude 0 included, is never answered 400.
C27_ValidLocationAccepted ==
    (EveryInputSupplied /\ pc = "done") => response.status # 400

\* the judge failed after a first read that succeeded, and the catch block is to run
FallbackAfterJudge ==
    /\ endpoint = "trend"
    /\ pc = "tr_fallback"
    /\ trend.error \in {"aiError", "SyntaxError"}

\* C28: the rule-based fallback answers from the price history and the
\* external price the request read before it asked the judge: trend,
\* internal_price and external_price are those of the first read.
C28_FallbackKeepsFirstRead ==
    [][ (FallbackAfterJudge /\ pc' = "done") =>
            /\ trend'.internalTrend = trend.internalTrend
            /\ response'.body.internal_price = trend.internalPrice
            /\ response'.body.external_price = trend.externalPrice ]_vars

\* C28, as the handler does it: the fallback answers from a second read of
\* market_price and a second external price, both made in the catch block,
\* so its internal_price is the newest price in the store when it answers,
\* a price inserted while the request was in flight included.
C28_FallbackReadsAgain ==
    (endpoint = "trend" /\ pc = "done" /\ reqCalls.history = 2) =>
        /\ response.body.external_price = trend.externalPrice
        /\ ~trend.pricesNull =>
              /\ trend.prices = Recent(market_price)
              /\ response.body.internal_price =
                    IF market_price = << >> THEN null ELSE market_price[1]
        /\ trend.pricesNull => response.body.internal_price = null

\* a fallback answer quoting a price that was inserted after the first read
C28_Witness ==
    /\ endpoint = "trend"
    /\ pc = "done"
    /\ reqCalls.history = 2
    /\ trend.error \in {"aiError", "SyntaxError"}
    /\ market_price = <<95, 105, 100>>
    /\ response.body.internal_price = 95

\* C29: a request to /ai/search, /ai/search-by-image or /ai/market-trend
\* has sent no response while its handler runs and exactly one when the
\* handler has ended, on every path.
C29_ExactlyOneResponse ==
    endpoint \in {"search", "image", "trend"} =>
        /\ sent \in {0, 1}
        /\ pc = "done" <=> sent = 1
        /\ sent = 1 <=> response # NoResponse

\* the image handler answered from the catch of its outer catch: the second
\* findProducts failed too
C29_Witness ==
    /\ endpoint = "image"
    /\ pc = "done"
    /\ fpCallNo = 2
    /\ fpOutcome.kind = "threw"
    /\ reqCalls.storageErrors = 2
    /\ sent = 1
    /\ response.status = 500

-----------------------------------------------------------------------------
(* src/index.js: protectRoute, lines 134-150, and POST /sales, lines 357-381 *)

\* the items a body can list: product_id and quantity
SaleItems == { [product_id |-> 1, quantity |-> 1], [product_id |-> 2, quantity |-> 3] }

ItemLists == UNION { [1..n -> SaleItems] : n \in 0..MaxItems }

Array(s) == [t |-> "array", v |-> s]

\* req.body.items: absent, a string, or an array
JsonItems == { [t |-> "undefined", v |-> << >>], [t |-> "string", v |-> << >>] }
                 \cup { Array(s) : s \in ItemLists }

JsonShopIds == {Undefined, Num(1)}

\* the Authorization header: absent or malformed, a token getUser rejects, a good token
AuthHeaders == {"missing", "invalid", "valid"}

\* protectRoute: lines 137-144
ProtectRoute(auth) ==
    CASE auth = "missing" ->
           [status |-> 401, body |-> [error |-> "Authorization header is missing or malformed."]]
      [] auth = "invalid" ->
           [status |-> 401, body |-> [error |-> "Invalid or expired token."]]
      [] OTHER -> NoResponse

\* !shop_id || !items || !Array.isArray(items) || items.length === 0: line 360
SalesRejects(shop_id, items) ==
    \/ ~Truthy(shop_id)
    \/ items.t = "undefined"
    \/ items.t # "array"
    \/ Len(items.v) = 0

\* lines 134-150 and 357-362: the middleware, then the validation of the body
PostSales ==
    \E auth \in AuthHeaders, shop_id \in JsonShopIds, items \in JsonItems :
       /\ FreshRequest("sales", [shop_id |-> shop_id, items |-> items])
       /\ fpArgs' = NoArgs
       /\ fpCallNo' = 0
       /\ IF ProtectRoute(auth) # NoResponse
          THEN /\ Send(ProtectRoute(auth).status, ProtectRoute(auth).body)
               /\ sales' = NoSales
          ELSE IF SalesRejects(shop_id, items)
          THEN /\ Send(400, [error |-> "shop_id and an array of items are required."])
               /\ sales' = NoSales
          ELSE /\ response' = NoResponse
               /\ sent' = 0
               /\ pc' = "sales_loop"
               /\ sales' = [items |-> items.v, attempted |-> << >>, recorded |-> << >>]
       /\ UNCHANGED << env, suspended, loaded, market_price >>

\* a loop that logs the error of an item and goes on to the next one
RecordSaleKeepsGoing ==
    /\ pc = "sales_loop"
    /\ \E error \in BOOLEAN :
         LET item == sales.items[Len(sales.attempted) + 1]
             attempted == Append(sales.attempted, item)
             recorded == IF error THEN sales.recorded ELSE Append(sales.recorded, item)
         IN  /\ sales' = [sales EXCEPT !.attempted = attempted, !.recorded = recorded]
             /\ IF Len(attempted) = Len(sales.items)
                THEN Send(201, [message |-> "Sales recorded and inventory updated successfully."])
                ELSE UNCHANGED << pc, response, sent >>
    /\ UNCHANGED << env, suspended, endpoint, req, fpArgs, fpCallNo, storage, products,
                    aiText, fpOutcome, fpCalls, reqCalls, identifiedFood,
                    classifierPredictions, visionOutcome, detectOutcome, localOutcome,
                    loaded, market_price, trend >>

\* one turn of the for loop, lines 364-372: await supabase.rpc('record_sale', ..) for
\* the next item; an error is thrown to the catch of lines 376-379, and the end of the
\* list reaches res.status(201) of line 374
RecordSale ==
    /\ pc = "sales_loop"
    /\ \E error \in BOOLEAN :
         LET item == sales.items[Len(sales.attempted) + 1]
             attempted == Append(sales.attempted, item)
             recorded == IF error THEN sales.recorded ELSE Append(sales.recorded, item)
         IN  /\ sales' = [sales EXCEPT !.attempted = attempted, !.recorded = recorded]
             /\ IF error
                THEN Send(500, [error |-> "An internal error occurred while recording the sale."])
                ELSE IF Len(attempted) = Len(sales.items)
                THEN Send(201, [message |-> "Sales recorded and inventory updated successfully."])
                ELSE UNCHANGED << pc, response, sent >>
    /\ UNCHANGED << env, suspended, endpoint, req, fpArgs, fpCallNo, storage, products,
                    aiText, fpOutcome, fpCalls, reqCalls, identifiedFood,
                    classifierPredictions, visionOutcome, detectOutcome, localOutcome,
                    loaded, market_price, trend >>

NextSales ==
    \/ PostSales
    \/ RecordSale
    \/ Finish

SpecSales == Init /\ [][NextSales]_vars

\* s is the first Len(s) elements of t
IsPrefix(s, t) == Len(s) <= Len(t) /\ s = SubSeq(t, 1, Len(s))

\* C30: POST /sales calls record_sale for the items one at a time in list order and
\* stops at the first error: while the loop runs every attempted item is recorded; a
\* 201 response means every item of the list is recorded; on a 500 response the items
\* before the failing one are recorded and stay recorded, the failing one is the last
\* attempted, and the items after it are never attempted.
C30_SalesStopAtFirstError ==
    endpoint = "sales" =>
       /\ IsPrefix(sales.attempted, sales.items)
       /\ IsPrefix(sales.recorded, sales.attempted)
       /\ pc = "sales_loop" => sales.recorded = sales.attempted
       /\ (pc = "done" /\ response.status = 201) => sales.recorded = sales.items
       /\ (pc = "done" /\ response.status = 500) =>
             /\ Len(sales.attempted) = Len(sales.recorded) + 1
             /\ sales.recorded # sales.items

\* the second of three items fails: one item stays recorded, the third is never attempted
C30_Witness ==
    /\ endpoint = "sales"
    /\ pc = "done"
    /\ response.status = 500
    /\ Len(sales.items) = 3
    /\ Len(sales.attempted) = 2
    /\ sales.recorded = << sales.items[1] >>

=============================================================================
